---- MODULE Spec2Model ----
(***************************************************************************)
(* Freight accrual re-coding: the code and profit-center resolution        *)
(* pipeline (pipeline.py PipelineRunner.run and the classes it calls).     *)
(*                                                                         *)
(* Text values are sequences of one-character strings, so that upper(),    *)
(* strip(), split(), re.findall() and zfill() are computed, not assumed.   *)
(* The missing values pandas distinguishes are the one-element sequences   *)
(* None, NaN and NA; a table is a sequence of rows and a row is a function *)
(* from column names to values.                                            *)
(***************************************************************************)
EXTENDS Naturals, Integers, Sequences, FiniteSets, TLC

VARIABLES
    pc,                     \* position in the run / the call being modelled
    accrual_df,             \* the shipment batch: a sequence of rows
    cintas_location_table,  \* LocationAttributeTable: a sequence of rows
    location_codes,         \* LocationDictionary: a sequence of codes
    cons_force_addr,        \* pipeline.py: per-row flag, consignor code was invalid
    dest_force_addr,        \* pipeline.py: per-row flag, consignee code was invalid
    args,                   \* inputs of the function call being modelled
    result                  \* value returned by the function call being modelled

vars == <<pc, accrual_df, cintas_location_table, location_codes,
          cons_force_addr, dest_force_addr, args, result>>

----------------------------------------------------------------------------
(* Python / pandas values *)

None == <<"None">>
NaN == <<"nan">>
NA == <<"<NA>">>
Raised == <<"raise">>
KeyError == <<"KeyError">>
TypeError == <<"TypeError">>

isna(v) == v \in {None, NaN, NA}

\* str(v): the text Python prints for a missing value
str(v) ==
    IF v = None THEN <<"N", "o", "n", "e">>
    ELSE IF v = NaN THEN <<"n", "a", "n">>
    ELSE IF v = NA THEN <<"<", "N", "A", ">">>
    ELSE v

LowerLetters == <<"a", "b", "c", "d", "e", "f", "g", "h", "i", "j", "k", "l", "m",
                  "n", "o", "p", "q", "r", "s", "t", "u", "v", "w", "x", "y", "z">>
UpperLetters == <<"A", "B", "C", "D", "E", "F", "G", "H", "I", "J", "K", "L", "M",
                  "N", "O", "P", "Q", "R", "S", "T", "U", "V", "W", "X", "Y", "Z">>
Digits == {"0", "1", "2", "3", "4", "5", "6", "7", "8", "9"}
NBSP == "U+00A0"    \* the no-break space, one character
Whitespace == {" ", "\t", NBSP}

Range(f) == {f[i] : i \in DOMAIN f}

UpperOf == [c \in Range(LowerLetters) |->
               UpperLetters[CHOOSE i \in DOMAIN LowerLetters : LowerLetters[i] = c]]
LowerOf == [c \in Range(UpperLetters) |->
               LowerLetters[CHOOSE i \in DOMAIN UpperLetters : UpperLetters[i] = c]]

upper_char(c) == IF c \in DOMAIN UpperOf THEN UpperOf[c] ELSE c
lower_char(c) == IF c \in DOMAIN LowerOf THEN LowerOf[c] ELSE c

upper(s) == [i \in 1..Len(s) |-> upper_char(s[i])]
lower(s) == [i \in 1..Len(s) |-> lower_char(s[i])]

RECURSIVE lstrip(_)
lstrip(s) == IF s # <<>> /\ Head(s) \in Whitespace THEN lstrip(Tail(s)) ELSE s

RECURSIVE rstrip(_)
rstrip(s) ==
    IF s # <<>> /\ s[Len(s)] \in Whitespace THEN rstrip(SubSeq(s, 1, Len(s) - 1)) ELSE s

strip(s) == rstrip(lstrip(s))

\* sub in s (Python's substring test)
contains(s, sub) ==
    \E i \in 0..Len(s) : i + Len(sub) <= Len(s) /\ SubSeq(s, i + 1, i + Len(sub)) = sub

startswith(s, prefix) ==
    Len(prefix) <= Len(s) /\ SubSeq(s, 1, Len(prefix)) = prefix

\* s.replace(c, "") for a one-character c
remove_char(s, c) == SelectSeq(s, LAMBDA x : x # c)

\* the maximal runs of characters of `keep` in s, left to right
RECURSIVE runs_from(_, _, _, _, _)
runs_from(s, keep, i, cur, acc) ==
    IF i > Len(s) THEN (IF cur = <<>> THEN acc ELSE Append(acc, cur))
    ELSE IF s[i] \in keep THEN runs_from(s, keep, i + 1, Append(cur, s[i]), acc)
    ELSE runs_from(s, keep, i + 1, <<>>,
                   IF cur = <<>> THEN acc ELSE Append(acc, cur))

\* re.findall(r"[A-Z0-9]+", t)
AlnumUpper == Range(UpperLetters) \cup Digits
findall_alnum(t) == runs_from(t, AlnumUpper, 1, <<>>, <<>>)

\* s.split(): whitespace-delimited tokens
split(s) == runs_from(s, Range(s) \ Whitespace, 1, <<>>, <<>>)

\* s.zfill(width): zeros go after a leading sign
RECURSIVE zfill(_, _)
zfill(s, width) ==
    IF Len(s) >= width THEN s
    ELSE IF s # <<>> /\ Head(s) \in {"+", "-"}
         THEN <<Head(s)>> \o zfill(Tail(s), width - 1)
         ELSE zfill(<<"0">> \o s, width)

\* Series.unique(): first occurrences, in order
RECURSIVE unique(_)
unique(seq) ==
    IF seq = <<>> THEN <<>>
    ELSE LET init == unique(SubSeq(seq, 1, Len(seq) - 1))
             last == seq[Len(seq)]
         IN  IF last \in Range(init) THEN init ELSE Append(init, last)

\* sorted(seq, key=len, reverse=True): stable, longest first
RECURSIVE insert_by_len_desc(_, _)
insert_by_len_desc(sorted, x) ==
    IF sorted = <<>> THEN <<x>>
    ELSE IF Len(Head(sorted)) >= Len(x)
         THEN <<Head(sorted)>> \o insert_by_len_desc(Tail(sorted), x)
         ELSE <<x>> \o sorted

RECURSIVE sorted_by_len_desc(_)
sorted_by_len_desc(seq) ==
    IF seq = <<>> THEN <<>>
    ELSE insert_by_len_desc(sorted_by_len_desc(SubSeq(seq, 1, Len(seq) - 1)),
                            seq[Len(seq)])

----------------------------------------------------------------------------
(* pipeline.py section 1: the code vocabulary and the token search *)

\* location_codes_df["Code"].dropna().astype(str).str.strip().str.upper().unique()
codes_series(codes) ==
    unique([i \in 1..Len(SelectSeq(codes, LAMBDA c : ~isna(c))) |->
              upper(strip(SelectSeq(codes, LAMBDA c : ~isna(c))[i]))])

\* variant: sorted without reverse=True, shortest code first
RECURSIVE reversed(_)
reversed(seq) == IF seq = <<>> THEN <<>> ELSE Append(reversed(Tail(seq)), Head(seq))

codes_sorted_shortest_first(codes) == reversed(sorted_by_len_desc(codes_series(codes)))

codes_sorted(codes) == sorted_by_len_desc(codes_series(codes))

RECURSIVE first_in(_, _)
first_in(candidates, tokens) ==
    IF candidates = <<>> THEN None
    ELSE IF Head(candidates) \in Range(tokens) THEN Head(candidates)
    ELSE first_in(Tail(candidates), tokens)

\* the tokens the search compares the codes with
text_tokens(t) == findall_alnum(t)

find_code_in_text(text, codes) ==
    IF text = NA THEN Raised           \* bool(pd.NA) raises TypeError
    ELSE LET t == upper(IF text = None \/ text = <<>> THEN <<>> ELSE str(text))
         IN  first_in(codes_sorted(codes), text_tokens(t))

----------------------------------------------------------------------------
(* extract_codes.py: the Extractor's variant of the same search *)

\* _get_codes_series for a plain iterable:
\* pd.Series(list(codes), dtype="string").str.upper().str.strip()
_get_codes_series(codes) ==
    [i \in 1..Len(codes) |-> IF isna(codes[i]) THEN NA ELSE strip(upper(codes[i]))]

_extract_from_text(text, series) ==
    IF text = None THEN None
    ELSE IF NA \in Range(series) THEN Raised     \* len(pd.NA) raises TypeError
    ELSE first_in(sorted_by_len_desc(unique(series)), findall_alnum(upper(str(text))))

----------------------------------------------------------------------------
(* Text literals *)

s_067N == <<"0", "6", "7", "N">>
s_67N == <<"6", "7", "N">>
s_67 == <<"6", "7">>
s_067n_padded == <<" ", "0", "6", "7", "n", " ">>
s_0999 == <<"0", "9", "9", "9">>
s_029N == <<"0", "2", "9", "N">>
s_CINTAS_067N_SOVEREIGN == <<"C", "I", "N", "T", "A", "S", " ", "0", "6", "7", "N", " ", "1", "4", "6", "0", "1", " ", "S", "O", "V", "E", "R", "E", "I", "G", "N", " ", "R", "D">>
s_X_67_067N == <<"X", " ", "6", "7", " ", "0", "6", "7", "N">>
s_AB_67N == <<"A", "B", "-", "6", "7", "N">>
s_cintas_67n == <<"c", "i", "n", "t", "a", "s", " ", "6", "7", "n">>
s_067N67 == <<"0", "6", "7", "N", "6", "7">>
s_ACME == <<"A", "C", "M", "E">>
s_empty == <<>>

----------------------------------------------------------------------------
(* SpecFind: the token search as a function of (party name, dictionary) *)

FindTexts ==
    {s_CINTAS_067N_SOVEREIGN, s_X_67_067N, s_AB_67N, s_cintas_67n, s_067N67,
     s_ACME, s_empty, None, NaN, NA}

FindDictionaries ==
    {<<s_67N, s_067N>>, <<s_67, s_067N>>, <<s_67, s_67N>>, <<s_067n_padded, s_67>>,
     <<s_67, NaN, s_067N, s_67>>, <<s_0999>>, <<>>}

InitFind ==
    /\ pc = "find"
    /\ args \in [text : FindTexts, codes : FindDictionaries]
    /\ result = None
    /\ accrual_df = <<>>
    /\ cintas_location_table = <<>>
    /\ location_codes = <<>>
    /\ cons_force_addr = <<>>
    /\ dest_force_addr = <<>>

Call_find_code_in_text ==
    /\ pc = "find"
    /\ result' = find_code_in_text(args.text, args.codes)
    /\ pc' = "found_pipeline"
    /\ UNCHANGED <<accrual_df, cintas_location_table, location_codes,
                   cons_force_addr, dest_force_addr, args>>

Call_extract_from_text ==
    /\ pc = "find"
    /\ result' = _extract_from_text(args.text, _get_codes_series(args.codes))
    /\ pc' = "found_extractor"
    /\ UNCHANGED <<accrual_df, cintas_location_table, location_codes,
                   cons_force_addr, dest_force_addr, args>>

NextFind == Call_find_code_in_text \/ Call_extract_from_text

SpecFind == InitFind /\ [][NextFind]_vars

\* code stands in text as a whole alphanumeric token: every character of it is
\* alphanumeric and the characters around the occurrence are not
OccursAsToken(code, text) ==
    /\ code # <<>>
    /\ Range(code) \subseteq AlnumUpper
    /\ \E i \in 1..Len(text) :
          /\ i + Len(code) - 1 <= Len(text)
          /\ SubSeq(text, i, i + Len(code) - 1) = code
          /\ (i = 1 \/ text[i - 1] \notin AlnumUpper)
          /\ (i + Len(code) - 1 = Len(text) \/ text[i + Len(code)] \notin AlnumUpper)

DictionaryCodes(codes) == {upper(strip(codes[i])) : i \in {j \in DOMAIN codes : ~isna(codes[j])}}

NameText(text) == upper(str(text))

\* C2: a code resolved from a party name is a dictionary code that stands in the
\* name as a whole alphanumeric token, and no dictionary code standing in the name
\* as a whole token is longer; a code that is only part of a token is never chosen.
C2_LongestWholeToken ==
    (pc \in {"found_pipeline", "found_extractor"} /\ result \notin {None, Raised})
    => /\ result \in DictionaryCodes(args.codes)
       /\ OccursAsToken(result, NameText(args.text))
       /\ \A c \in DictionaryCodes(args.codes) :
             OccursAsToken(c, NameText(args.text)) => Len(c) <= Len(result)

C2_Witness ==
    /\ pc = "found_pipeline"
    /\ args.text = s_X_67_067N
    /\ args.codes = <<s_67, s_067N>>
    /\ result = s_067N

----------------------------------------------------------------------------
(* More text literals *)

s_omnitrans == <<"o", "m", "n", "i", "t", "r", "a", "n", "s">>
s_Omnitrans_sp == <<"O", "m", "n", "i", "t", "r", "a", "n", "s", " ">>
s_UPS == <<"U", "P", "S">>
s_THIRD == <<"T", "H", "I", "R", "D">>
s_Third_Party == <<"T", "h", "i", "r", "d", " ", "P", "a", "r", "t", "y">>
s_US == <<"U", "S">>
s_NAN == <<"N", "A", "N">>
s_067n_sp == <<"0", "6", "7", "n", " ">>
s_14601_Sovereign_Rd == <<"1", "4", "6", "0", "1", " ", "S", "o", "v", "e", "r", "e", "i", "g", "n", " ", "R", "d">>
s_Ft_Worth == <<"F", "t", ".", " ", "W", "o", "r", "t", "h">>
s_TX == <<"T", "X">>
s_1_Main_St == <<"1", " ", "M", "a", "i", "n", " ", "S", "t">>
s_Mason == <<"M", "a", "s", "o", "n">>
s_OH == <<"O", "H">>
s_space == <<" ">>

----------------------------------------------------------------------------
(* Tables: a DataFrame is a non-empty sequence of rows over the same columns *)

columns(df) == DOMAIN df[1]

\* row[col] = value; the column is created when missing
set_column(row, col, value) ==
    [c \in DOMAIN row \cup {col} |-> IF c = col THEN value ELSE row[c]]

----------------------------------------------------------------------------
(* pipeline.py section 0: required columns *)

RequiredColumns == <<"Consignor Code", "Consignee Code", "Consignor Type", "Consignee Type">>

add_required_columns(row) ==
    [c \in DOMAIN row \cup Range(RequiredColumns) |-> IF c \in DOMAIN row THEN row[c] ELSE NA]

----------------------------------------------------------------------------
(* pipeline.py section 2: Org/Dest Type Code first, except for Omnitrans *)

_blank_or_na(v) == isna(v) \/ strip(str(v)) = <<>>

carrier_ok(row) ==
    IF "Carrier Name" \in DOMAIN row
    THEN lower(strip(str(row["Carrier Name"]))) # s_omnitrans
    ELSE TRUE

type_code_priority(row, attr_col, code_col) ==
    IF attr_col \in DOMAIN row
    THEN LET val == strip(str(row[attr_col]))
         IN  IF val # <<>> /\ carrier_ok(row)
             THEN [row EXCEPT ![code_col] = upper(val)]
             ELSE row
    ELSE row

----------------------------------------------------------------------------
(* pipeline.py section 3: extraction from the party name *)

needs_text_extract(type) == isna(type) \/ contains(upper(str(type)), s_THIRD)

\* variant: the Extractor's test (code blank OR type blank), which lets the name
\* replace a code the direct attribute has set
extract_mask_either(row, code_col, type_col) ==
    needs_text_extract(row[type_col]) \/ _blank_or_na(row[code_col])

extract_mask(row, code_col, type_col) ==
    needs_text_extract(row[type_col]) /\ _blank_or_na(row[code_col])

extract_from_name(row, name_col, code_col, type_col, codes) ==
    IF name_col \in DOMAIN row /\ extract_mask(row, code_col, type_col)
    THEN [row EXCEPT ![code_col] = find_code_in_text(row[name_col], codes)]
    ELSE row

----------------------------------------------------------------------------
(* pipeline.py section 3B: a code that is not in the location table is blanked *)

LocCodeColumnCandidates == <<"Loc Code", "LOC CODE", "Location Code", "LocCode", "Code">>

loc_code_col(table) ==
    LET found == SelectSeq(LocCodeColumnCandidates, LAMBDA c : c \in columns(table))
    IN  IF found = <<>> THEN "" ELSE found[1]

valid_loc_codes(table) ==
    {upper(strip(str(table[i][loc_code_col(table)]))) :
        i \in {j \in DOMAIN table : ~isna(table[j][loc_code_col(table)])}}

code_invalid(code, table) ==
    LET norm == upper(strip(str(code)))
    IN  /\ loc_code_col(table) # ""
        /\ norm # <<>> /\ norm # s_NAN /\ ~isna(code)
        /\ norm \notin valid_loc_codes(table)

blank_invalid(row, code_col, table) ==
    IF code_invalid(row[code_col], table) THEN [row EXCEPT ![code_col] = NA] ELSE row

----------------------------------------------------------------------------
(* address_merge.py: the combined-address key *)

AddressPunctuation == <<" ", ",", ".", "-">>

RECURSIVE remove_chars(_, _)
remove_chars(s, cs) ==
    IF cs = <<>> THEN s ELSE remove_chars(remove_char(s, Head(cs)), Tail(cs))

\* str(val or "").upper().replace(...).strip(); bool(pd.NA) raises TypeError
_normalize_token(val) ==
    IF val = NA THEN Raised
    ELSE strip(remove_chars(upper(IF val = None THEN <<>> ELSE str(val)),
                            AddressPunctuation))

_first_word(val) ==
    IF val = None THEN <<>>
    ELSE LET tokens == split(strip(str(val)))
         IN  IF tokens = <<>> THEN <<>> ELSE tokens[1]

combined_address(street, city, state) ==
    IF Raised \in {_normalize_token(city), _normalize_token(state)} THEN Raised
    ELSE _normalize_token(_first_word(street)) \o _normalize_token(city)
            \o _normalize_token(state)

\* CombinedAddress.create on one row, then the pipeline's .astype(str).str.upper()
create_combined_address(row, target, street_col, city_col, state_col) ==
    set_column(row, target,
               upper(combined_address(row[street_col], row[city_col], row[state_col])))

----------------------------------------------------------------------------
(* address_crossref.py: Merger *)

_needs_address_fill(code_val, type_val) ==
    LET code_str == IF code_val = None THEN <<>> ELSE strip(str(code_val))
        type_str == IF type_val = None THEN <<>> ELSE strip(upper(str(type_val)))
    IN  IF code_str # <<>> THEN FALSE
        ELSE type_str = <<>> \/ contains(type_str, s_THIRD)

Max(S) == CHOOSE x \in S : \A y \in S : y <= x
Min(S) == CHOOSE x \in S : \A y \in S : x <= y

\* the rows left by [["Combined Address", "Loc Code"]].dropna().drop_duplicates()
addr_pairs(table) ==
    LET kept == {i \in DOMAIN table : /\ ~isna(table[i]["Combined Address"])
                                      /\ ~isna(table[i]["Loc Code"])}
    IN  {i \in kept :
            ~\E j \in kept : /\ j < i
                             /\ table[j]["Combined Address"] = table[i]["Combined Address"]
                             /\ table[j]["Loc Code"] = table[i]["Loc Code"]}

\* those of them that carry the key addr
addr_rows(table, addr) == {i \in addr_pairs(table) : table[i]["Combined Address"] = addr}

\* .set_index("Combined Address")["Loc Code"].to_dict(): for a repeated key the
\* dict keeps the value written last
to_dict_row(rows) == Max(rows)

\* addr_to_loc.get(addr, default)
addr_to_loc_get(table, addr, default) ==
    IF addr_rows(table, addr) = {} THEN default
    ELSE table[to_dict_row(addr_rows(table, addr))]["Loc Code"]

fill_code(row, table, code_column, addr_col, type_col) ==
    IF ~_needs_address_fill(row[code_column], row[type_col]) THEN row[code_column]
    ELSE IF isna(row[addr_col]) THEN row[code_column]
    ELSE addr_to_loc_get(table, row[addr_col], row[code_column])

\* Merger.merge on one row of the subset passed in
merge(row, table, code_column) ==
    LET addr_col == IF code_column = "Consignor Code"
                    THEN "Consignor Combined Address" ELSE "Consignee Combined Address"
        type_col == IF code_column = "Consignor Code"
                    THEN "Consignor Type" ELSE "Consignee Type"
    IN  [row EXCEPT ![code_column] = fill_code(row, table, code_column, addr_col, type_col)]

\* pipeline.py section 5: the rows the merge is run on
addr_mask(row, code_col, type_col, force) ==
    (_blank_or_na(row[code_col]) /\ needs_text_extract(row[type_col])) \/ force

\* variant: the lookup written over every row, as an unguarded
\* df[code] = df[addr].map(addr_to_loc) would do
address_merge_overwrite(row, table, code_col, type_col, force) ==
    [row EXCEPT ![code_col] =
        addr_to_loc_get(table,
                        row[IF code_col = "Consignor Code" THEN "Consignor Combined Address"
                                                           ELSE "Consignee Combined Address"],
                        row[code_col])]

address_merge(row, table, code_col, type_col, force) ==
    IF addr_mask(row, code_col, type_col, force) THEN merge(row, table, code_col) ELSE row

----------------------------------------------------------------------------
(* SpecExtract: PipelineRunner.run, sections 0 to 5, on a batch *)

MaxRows == 1        \* rows in a batch
MaxReruns == 1      \* times section 5 is run again on its own output

Absent == <<"absent">>      \* marks a column the input does not have

drop_absent(fields) == [c \in {k \in DOMAIN fields : fields[k] # Absent} |-> fields[c]]

s_FT_WORTH == <<"F", "T", " ", "W", "O", "R", "T", "H">>

PartyInputs ==
    [name : {s_CINTAS_067N_SOVEREIGN, s_ACME},
     code : {NaN, s_empty, s_029N, s_0999},
     type : {NaN, None, s_empty, s_Third_Party, s_US},
     attr : {Absent, s_empty, NaN, s_067n_sp, s_0999, s_67N},
     street : {s_14601_Sovereign_Rd, s_1_Main_St}]

OtherParty ==
    [name |-> s_ACME, code |-> NaN, type |-> NaN, attr |-> s_029N, street |-> s_1_Main_St]

\* inputs without the code, type and carrier columns
SparseInputs ==
    [name : {s_CINTAS_067N_SOVEREIGN, s_ACME},
     code : {Absent},
     type : {Absent},
     attr : {Absent, s_067n_sp},
     street : {s_14601_Sovereign_Rd, s_1_Main_St}]

Carriers == {s_Omnitrans_sp, s_UPS}

shipment(cons, dest, carrier) ==
    drop_absent(
        [c \in {"Consignor", "Consignee", "Consignor Code", "Consignee Code",
                "Consignor Type", "Consignee Type", "Org Type Code", "Dest Type Code",
                "Carrier Name", "Origin Addresss", "Origin City", "Origin State Code",
                "Dest Address1", "Dest City", "Dest State Code"} |->
            CASE c = "Consignor" -> cons.name
              [] c = "Consignee" -> dest.name
              [] c = "Consignor Code" -> cons.code
              [] c = "Consignee Code" -> dest.code
              [] c = "Consignor Type" -> cons.type
              [] c = "Consignee Type" -> dest.type
              [] c = "Org Type Code" -> cons.attr
              [] c = "Dest Type Code" -> dest.attr
              [] c = "Carrier Name" -> carrier
              [] c = "Origin Addresss" -> cons.street
              [] c = "Dest Address1" -> dest.street
              [] c \in {"Origin City", "Dest City"} -> s_Ft_Worth
              [] OTHER -> s_TX])

\* a further row of the same batch: the same columns, another shipment
further_row(row) ==
    [c \in DOMAIN row |->
        IF c \in {"Consignor", "Consignee"} THEN s_CINTAS_067N_SOVEREIGN
        ELSE IF c \in {"Org Type Code", "Dest Type Code"} THEN s_empty
        ELSE row[c]]

batch(row, n) == [i \in 1..n |-> IF i = 1 THEN row ELSE further_row(row)]

location(code, street, type) ==
    [c \in {"Loc Code", "Loc_Address", "Loc_City", "Loc_ST", "Type_Code"} |->
        CASE c = "Loc Code" -> code
          [] c = "Loc_Address" -> street
          [] c = "Loc_City" -> s_FT_WORTH
          [] c = "Loc_ST" -> s_TX
          [] OTHER -> type]

LocationTables ==
    {<<location(s_029N, s_14601_Sovereign_Rd, s_US),
       location(s_067N, s_14601_Sovereign_Rd, s_US),
       location(s_029N, s_14601_Sovereign_Rd, s_US)>>,
     <<location(s_067n_sp, s_14601_Sovereign_Rd, s_US),
       location(NaN, s_1_Main_St, s_US)>>}

Dictionaries == {<<s_67N, s_067N>>}

InitExtract ==
    /\ pc = "start"
    /\ \E n \in 1..MaxRows :
          \/ \E p \in PartyInputs, swap \in BOOLEAN, carrier \in Carriers :
                accrual_df = batch(IF swap THEN shipment(OtherParty, p, carrier)
                                           ELSE shipment(p, OtherParty, carrier), n)
          \/ \E p \in SparseInputs, q \in SparseInputs :
                accrual_df = batch(shipment(p, q, Absent), n)
    /\ cintas_location_table \in LocationTables
    /\ location_codes \in Dictionaries
    /\ cons_force_addr = <<>>
    /\ dest_force_addr = <<>>
    /\ args = [input |-> accrual_df, before |-> <<>>, reruns |-> 0]
    /\ result = None

Rows == DOMAIN accrual_df

AddRequiredColumns ==
    /\ pc = "start"
    /\ accrual_df' = [i \in Rows |-> add_required_columns(accrual_df[i])]
    /\ pc' = "priority"
    /\ UNCHANGED <<cintas_location_table, location_codes, cons_force_addr,
                   dest_force_addr, args, result>>

TypeCodePriority ==
    /\ pc = "priority"
    /\ accrual_df' =
          [i \in Rows |->
              type_code_priority(
                  type_code_priority(accrual_df[i], "Org Type Code", "Consignor Code"),
                  "Dest Type Code", "Consignee Code")]
    /\ pc' = "extract"
    /\ UNCHANGED <<cintas_location_table, location_codes, cons_force_addr,
                   dest_force_addr, args, result>>

ExtractFromText ==
    /\ pc = "extract"
    /\ LET new == [i \in Rows |->
                      extract_from_name(
                          extract_from_name(accrual_df[i], "Consignor", "Consignor Code",
                                            "Consignor Type", location_codes),
                          "Consignee", "Consignee Code", "Consignee Type", location_codes)]
       IN  IF \E i \in Rows : Raised \in {new[i]["Consignor Code"], new[i]["Consignee Code"]}
           THEN pc' = "raised" /\ UNCHANGED accrual_df
           ELSE pc' = "invalid" /\ accrual_df' = new
    /\ UNCHANGED <<cintas_location_table, location_codes, cons_force_addr,
                   dest_force_addr, args, result>>

BlankInvalidCodes ==
    /\ pc = "invalid"
    /\ cons_force_addr' =
          [i \in Rows |-> code_invalid(accrual_df[i]["Consignor Code"], cintas_location_table)]
    /\ dest_force_addr' =
          [i \in Rows |-> code_invalid(accrual_df[i]["Consignee Code"], cintas_location_table)]
    /\ accrual_df' =
          [i \in Rows |->
              blank_invalid(blank_invalid(accrual_df[i], "Consignor Code", cintas_location_table),
                            "Consignee Code", cintas_location_table)]
    /\ pc' = "combine"
    /\ UNCHANGED <<cintas_location_table, location_codes, args, result>>

\* CombinedAddress.create raises KeyError when df lacks one of the three columns
address_column_missing(df, street_col, city_col, state_col) ==
    \E c \in {street_col, city_col, state_col} : c \notin columns(df)

\* section 4: the table first, then the consignee, then the consignor; a call that
\* raises leaves what the calls before it have written
CombinedAddresses ==
    /\ pc = "combine"
    /\ LET table_missing == address_column_missing(cintas_location_table,
                                                   "Loc_Address", "Loc_City", "Loc_ST")
           dest_missing == address_column_missing(accrual_df, "Dest Address1", "Dest City",
                                                  "Dest State Code")
           origin_missing == address_column_missing(accrual_df, "Origin Addresss",
                                                    "Origin City", "Origin State Code")
           table == [i \in DOMAIN cintas_location_table |->
                        create_combined_address(cintas_location_table[i], "Combined Address",
                                                "Loc_Address", "Loc_City", "Loc_ST")]
           with_dest == [i \in Rows |->
                            create_combined_address(accrual_df[i], "Consignee Combined Address",
                                                    "Dest Address1", "Dest City",
                                                    "Dest State Code")]
       IN  IF table_missing
           THEN /\ pc' = "raised" /\ result' = KeyError
                /\ UNCHANGED <<cintas_location_table, accrual_df>>
           ELSE IF dest_missing
           THEN /\ pc' = "raised" /\ result' = KeyError
                /\ cintas_location_table' = table
                /\ UNCHANGED accrual_df
           ELSE IF origin_missing
           THEN /\ pc' = "raised" /\ result' = KeyError
                /\ cintas_location_table' = table
                /\ accrual_df' = with_dest
           ELSE /\ pc' = "merge"
                /\ cintas_location_table' = table
                /\ accrual_df' =
                      [i \in Rows |->
                          create_combined_address(with_dest[i], "Consignor Combined Address",
                                                  "Origin Addresss", "Origin City",
                                                  "Origin State Code")]
                /\ UNCHANGED result
    /\ UNCHANGED <<location_codes, cons_force_addr, dest_force_addr, args>>

address_merge_all(df, table, cons_force, dest_force) ==
    [i \in DOMAIN df |->
        address_merge(
            address_merge(df[i], table, "Consignor Code", "Consignor Type", cons_force[i]),
            table, "Consignee Code", "Consignee Type", dest_force[i])]

AddressMerge ==
    /\ pc = "merge"
    /\ accrual_df' = address_merge_all(accrual_df, cintas_location_table,
                                       cons_force_addr, dest_force_addr)
    /\ args' = [args EXCEPT !.before = accrual_df]
    /\ pc' = "format"
    /\ UNCHANGED <<cintas_location_table, location_codes, cons_force_addr,
                   dest_force_addr, result>>

\* section 5 run once more, alone, on the batch it produced
AddressMergeAgain ==
    /\ pc = "format"
    /\ args.reruns < MaxReruns
    /\ accrual_df' = address_merge_all(accrual_df, cintas_location_table,
                                       cons_force_addr, dest_force_addr)
    /\ args' = [args EXCEPT !.before = accrual_df, !.reruns = args.reruns + 1]
    /\ UNCHANGED <<pc, cintas_location_table, location_codes, cons_force_addr,
                   dest_force_addr, result>>

NextExtract ==
    \/ AddRequiredColumns
    \/ TypeCodePriority
    \/ ExtractFromText
    \/ BlankInvalidCodes
    \/ CombinedAddresses
    \/ AddressMerge
    \/ AddressMergeAgain

SpecExtract == InitExtract /\ [][NextExtract]_vars

----------------------------------------------------------------------------
(* Properties of code extraction *)

Parties ==
    {[attr |-> "Org Type Code", code |-> "Consignor Code", type |-> "Consignor Type",
      name |-> "Consignor", addr |-> "Consignor Combined Address"],
     [attr |-> "Dest Type Code", code |-> "Consignee Code", type |-> "Consignee Type",
      name |-> "Consignee", addr |-> "Consignee Combined Address"]}

NonBlank(v) == ~isna(v) /\ strip(v) # <<>>

AttrNonBlank(row, p) == p.attr \in DOMAIN row /\ NonBlank(row[p.attr])

IsOmnitrans(row) ==
    /\ "Carrier Name" \in DOMAIN row
    /\ ~isna(row["Carrier Name"])
    /\ lower(strip(row["Carrier Name"])) = s_omnitrans

TableCodes(table) ==
    {upper(strip(table[i]["Loc Code"])) : i \in {j \in DOMAIN table : ~isna(table[j]["Loc Code"])}}

ExtractionDone == pc = "format"

\* C1 as stated: whenever the direct attribute is non-blank, the party's code at
\* the end of code extraction is that attribute, character for character.
C1_AttributeAlwaysWins ==
    ExtractionDone =>
        \A i \in Rows : \A p \in Parties :
            AttrNonBlank(accrual_df[i], p) => accrual_df[i][p.code] = accrual_df[i][p.attr]

\* C1 (amended): when the direct attribute is non-blank, the carrier is not
\* Omnitrans and the attribute, trimmed and upper-cased, is one of the location
\* table's Loc Codes, the party's code at the end of code extraction is the
\* attribute trimmed and upper-cased, whatever the name, address and type are.
C1_AttributeWinsWhenValid ==
    ExtractionDone =>
        \A i \in Rows : \A p \in Parties :
            (/\ AttrNonBlank(accrual_df[i], p)
             /\ ~IsOmnitrans(accrual_df[i])
             /\ upper(strip(accrual_df[i][p.attr])) \in TableCodes(cintas_location_table))
            => accrual_df[i][p.code] = upper(strip(accrual_df[i][p.attr]))

\* the attribute 067n wins over a name that carries no code and a missing type
C1_Witness ==
    /\ ExtractionDone
    /\ \E i \in Rows :
          /\ accrual_df[i]["Consignor"] = s_ACME
          /\ "Org Type Code" \in DOMAIN accrual_df[i]
          /\ accrual_df[i]["Org Type Code"] = s_067n_sp
          /\ accrual_df[i]["Consignor Type"] = NaN
          /\ ~IsOmnitrans(accrual_df[i])
          /\ accrual_df[i]["Consignor Code"] = s_067N

TypeBlank(v) == isna(v) \/ strip(v) = <<>>

\* C3: a party whose name is "CINTAS 067N 14601 SOVEREIGN RD", whose type is blank,
\* which has no code and no direct attribute yet, and a dictionary holding 67N and
\* 067N: text extraction is attempted and the party ends with the code 067N.
C3_BlankTypeScenarioResolves ==
    ExtractionDone =>
        \A i \in Rows : \A p \in Parties :
            (/\ accrual_df[i][p.name] = s_CINTAS_067N_SOVEREIGN
             /\ TypeBlank(accrual_df[i][p.type])
             /\ ~AttrNonBlank(accrual_df[i], p)
             /\ {s_67N, s_067N} \subseteq Range(location_codes)
             /\ s_067N \in TableCodes(cintas_location_table)
             /\ (p.code \in DOMAIN args.input[i] => ~NonBlank(args.input[i][p.code])))
            => accrual_df[i][p.code] = s_067N

\* C4: the address merge leaves every non-blank code as it found it, and run again
\* on its own output it changes no code at all.
C4_AddressMergeOnlyFillsBlanks ==
    [][/\ pc \in {"merge", "format"} =>
            \A i \in Rows : \A p \in Parties :
                NonBlank(accrual_df[i][p.code]) => accrual_df'[i][p.code] = accrual_df[i][p.code]
       /\ pc = "format" =>
            \A i \in Rows : \A p \in Parties :
                accrual_df'[i][p.code] = accrual_df[i][p.code]]_vars

\* after the second run: a consignor that kept the code 029N although its address
\* is the table's address of 067N
C4_Witness ==
    /\ pc = "format"
    /\ args.reruns >= 1
    /\ \E i \in Rows :
          /\ accrual_df[i]["Consignor Code"] = s_029N
          /\ addr_to_loc_get(cintas_location_table,
                             accrual_df[i]["Consignor Combined Address"], None) = s_067N

\* C5: for every combined-address key of the table the lookup returns the Loc Code
\* of the first row that carries the key.
C5_FirstOccurrenceWins ==
    pc \in {"merge", "format"} =>
        \A i \in DOMAIN cintas_location_table :
            LET key == cintas_location_table[i]["Combined Address"]
                same == {j \in DOMAIN cintas_location_table :
                            /\ cintas_location_table[j]["Combined Address"] = key
                            /\ ~isna(cintas_location_table[j]["Loc Code"])}
            IN  same # {} =>
                    addr_to_loc_get(cintas_location_table, key, None)
                        = cintas_location_table[Min(same)]["Loc Code"]

----------------------------------------------------------------------------
(* map_types.py: TypeMapper and TypeCleaner *)

s_N_A == <<"N", ".", "A", ".">>
s_n_a == <<"n", ".", "a", ".">>
s_N_a_sp == <<" ", "N", ".", "a", ".", " ">>
s_two_spaces == <<" ", " ">>
s_NON_CINTAS == <<"N", "O", "N", "-", "C", "I", "N", "T", "A", "S">>
s_FC == <<"F", "C">>
s_67n == <<"6", "7", "n">>
s_INV1 == <<"I", "N", "V", "1">>
s_INV2 == <<"I", "N", "V", "2">>
s_INV3 == <<"I", "N", "V", "3">>

CodeWidth == 4

\* .astype(str).str.zfill(4).str.upper(), only where the value is not missing
format_code(v) == IF isna(v) THEN v ELSE upper(zfill(str(v), CodeWidth))

\* pd.merge matches a missing key with a missing key
keys_match(a, b) == (isna(a) /\ isna(b)) \/ a = b

\* step 4: the rows whose type is taken from the table
\* variant: every row takes the table's type
type_fill_mask_always(type) == TRUE

type_fill_mask(type) ==
    \/ isna(type)
    \/ strip(str(type)) = <<>>
    \/ strip(upper(str(type))) = s_N_A

RECURSIVE flatten(_)
flatten(seqs) == IF seqs = <<>> THEN <<>> ELSE Head(seqs) \o flatten(Tail(seqs))

\* the rows the left merge makes of one shipment row, then steps 4 and 5
map_types_row(row, locations, code_column, type_column) ==
    LET matches == SelectSeq(locations,
                             LAMBDA l : keys_match(row[code_column], l["Loc Code"]))
        new_types == IF matches = <<>> THEN <<NaN>>
                     ELSE [j \in 1..Len(matches) |-> matches[j]["Type_Code"]]
    IN  [j \in 1..Len(new_types) |->
            IF type_fill_mask(row[type_column])
            THEN [row EXCEPT ![type_column] = new_types[j]]
            ELSE row]

\* step 1 on the reference table: Loc Code rewritten in place
format_loc_codes(locations) ==
    [i \in DOMAIN locations |->
        [locations[i] EXCEPT !["Loc Code"] = format_code(locations[i]["Loc Code"])]]

map_types(df, locations, code_column, type_column) ==
    flatten([i \in DOMAIN df |->
                map_types_row([df[i] EXCEPT ![code_column] = format_code(df[i][code_column])],
                              format_loc_codes(locations), code_column, type_column)])

NonCintasReplaced == <<s_empty, s_space, s_N_A, s_n_a>>

\* df[col].replace(['', ' ', 'N.A.', 'n.a.'], np.nan).fillna('NON-CINTAS')
fill_non_cintas_value(v) ==
    IF v \in Range(NonCintasReplaced) \/ isna(v) THEN s_NON_CINTAS ELSE v

\* variant: a missing type is filled forward from the row above (fillna(method="ffill"))
fill_non_cintas_ffill(df, cols) ==
    [i \in DOMAIN df |->
        [c \in DOMAIN df[i] |->
            IF c \notin cols \/ fill_non_cintas_value(df[i][c]) = df[i][c] THEN df[i][c]
            ELSE IF i > 1 THEN fill_non_cintas_value(df[i - 1][c])
            ELSE s_NON_CINTAS]]

fill_non_cintas(df, cols) ==
    [i \in DOMAIN df |->
        [c \in DOMAIN df[i] |-> IF c \in cols THEN fill_non_cintas_value(df[i][c]) ELSE df[i][c]]]

----------------------------------------------------------------------------
(* SpecTypes: PipelineRunner.run section 7 on a batch with formatted or raw codes *)

TypeValues ==
    {NaN, s_empty, s_space, s_two_spaces, s_N_A, s_n_a, s_N_a_sp, s_US, s_Third_Party}

TypedCodes == {NaN, s_67n, s_067N, s_0999}

typed_shipment(id, ccode, ctype, dcode, dtype) ==
    [c \in {"Invoice Number", "Consignor Code", "Consignor Type",
            "Consignee Code", "Consignee Type"} |->
        CASE c = "Invoice Number" -> id
          [] c = "Consignor Code" -> ccode
          [] c = "Consignor Type" -> ctype
          [] c = "Consignee Code" -> dcode
          [] OTHER -> dtype]

typed_batch(row, n) ==
    [i \in 1..n |->
        IF i = 1 THEN row
        ELSE [row EXCEPT !["Invoice Number"] = IF i = 2 THEN s_INV2 ELSE s_INV3]]

type_location(code, type) ==
    [c \in {"Loc Code", "Type_Code"} |-> IF c = "Loc Code" THEN code ELSE type]

TypeTables ==
    {<<type_location(s_067N, s_US), type_location(s_029N, s_FC)>>,
     <<type_location(s_67n, s_US), type_location(s_067N, s_FC)>>,
     <<type_location(s_067N, s_two_spaces), type_location(NaN, s_N_A)>>}

InitTypes ==
    /\ pc = "types"
    /\ \E ccode \in TypedCodes, ctype \in TypeValues, dcode \in TypedCodes,
          dtype \in TypeValues, n \in 1..MaxRows :
          accrual_df = typed_batch(typed_shipment(s_INV1, ccode, ctype, dcode, dtype), n)
    /\ cintas_location_table \in TypeTables
    /\ location_codes = <<>>
    /\ cons_force_addr = <<>>
    /\ dest_force_addr = <<>>
    /\ args = [input |-> accrual_df, before |-> <<>>, reruns |-> 0]
    /\ result = None

MapConsignorTypes ==
    /\ pc = "types"
    /\ accrual_df' = map_types(accrual_df, cintas_location_table,
                               "Consignor Code", "Consignor Type")
    /\ cintas_location_table' = format_loc_codes(cintas_location_table)
    /\ pc' = "types_consignee"
    /\ UNCHANGED <<location_codes, cons_force_addr, dest_force_addr, args, result>>

MapConsigneeTypes ==
    /\ pc = "types_consignee"
    /\ accrual_df' = map_types(accrual_df, cintas_location_table,
                               "Consignee Code", "Consignee Type")
    /\ cintas_location_table' = format_loc_codes(cintas_location_table)
    /\ pc' = "clean"
    /\ UNCHANGED <<location_codes, cons_force_addr, dest_force_addr, args, result>>

FillNonCintas ==
    /\ pc = "clean"
    /\ accrual_df' = fill_non_cintas(accrual_df, {"Consignor Type", "Consignee Type"})
    /\ pc' = "matrix"
    /\ UNCHANGED <<cintas_location_table, location_codes, cons_force_addr,
                   dest_force_addr, args, result>>

NextTypes == MapConsignorTypes \/ MapConsigneeTypes \/ FillNonCintas

SpecTypes == InitTypes /\ [][NextTypes]_vars

TypeColumns == {"Consignor Type", "Consignee Type"}

\* a populated, meaningful type: not missing, not blank, not the N.A. marker
\* (the marker is compared trimmed and without regard to case, as map_types does)
Meaningful(v) == ~isna(v) /\ strip(v) # <<>> /\ upper(strip(v)) # s_N_A

\* row `child` of the table after a step is made of row `parent` of the table before
\* it and carries the parent's meaningful types unchanged
KeepsMeaningfulTypes(parent, child) ==
    /\ child["Invoice Number"] = parent["Invoice Number"]
    /\ \A c \in TypeColumns : Meaningful(parent[c]) => child[c] = parent[c]

\* C6: no step of the classifier changes a type that is non-null, non-blank and
\* not the N.A. marker: every row a step produces is made of a row that was there
\* before the step and keeps that row's meaningful types, and every row that was
\* there has such a row after the step, whatever type the table holds for its code.
C6_MeaningfulTypeKept ==
    [][/\ pc \in {"types", "types_consignee", "clean"} =>
            \A j \in DOMAIN accrual_df' : \E i \in DOMAIN accrual_df :
                KeepsMeaningfulTypes(accrual_df[i], accrual_df'[j])
       /\ pc \in {"types", "types_consignee", "clean"} =>
            \A i \in DOMAIN accrual_df : \E j \in DOMAIN accrual_df' :
                KeepsMeaningfulTypes(accrual_df[i], accrual_df'[j])
      ]_vars

\* a consignor typed Third Party whose code the table types US, after classification
C6_Witness ==
    /\ pc = "matrix"
    /\ \E i \in DOMAIN accrual_df :
          /\ accrual_df[i]["Consignor Type"] = s_Third_Party
          /\ accrual_df[i]["Consignor Code"] = s_067N
          /\ \E l \in DOMAIN cintas_location_table :
                /\ cintas_location_table[l]["Loc Code"] = s_067N
                /\ cintas_location_table[l]["Type_Code"] = s_US

\* C7: after type classification no Consignor Type or Consignee Type is null or
\* blank; a type the lookup left null or blank is NON-CINTAS.
C7_NoBlankTypeAfterClassification ==
    pc = "matrix" =>
        \A i \in DOMAIN accrual_df : \A c \in TypeColumns : ~TypeBlank(accrual_df[i][c])

----------------------------------------------------------------------------
(* matrix_map.py: MatrixMapper *)

ZWSP == "U+200B"    \* the zero-width space, one character

s_AVERITT == <<"A", "V", "E", "R", "I", "T", "T">>
s_AVERITT_EXPRESS == <<"A", "V", "E", "R", "I", "T", "T", " ", "E", "X", "P", "R", "E", "S", "S">>
s_Matheson_FS == <<"M", "a", "t", "h", "e", "s", "o", "n", " ", "F", "S">>
s_matheson == <<"m", "a", "t", "h", "e", "s", "o", "n">>
s_fs == <<"f", "s">>
s_COOPETRAJES == <<"C", "O", "O", "P", "E", "T", "R", "A", "J", "E", "S">>
s_Coopetrajes_RL == <<"C", "o", "o", "p", "e", "t", "r", "a", "j", "e", "s", " ", "R", "L">>
s_CINTAS_897 == <<"C", "I", "N", "T", "A", "S", " ", "8", "9", "7">>
s_cintas_0897 == <<"c", "i", "n", "t", "a", "s", " ", "0", "8", "9", "7">>
s_0897 == <<"0", "8", "9", "7">>
s_897 == <<"8", "9", "7">>
s_570_MATH == <<"5", "7", "0", " ", "M", "A", "T", "H">>
s_570_MATHESON_BLVD == <<"5", "7", "0", " ", "M", "A", "T", "H", "E", "S", "O", "N", " ", "B", "L", "V", "D">>
s_0004 == <<"0", "0", "0", "4">>
s_0896 == <<"0", "8", "9", "6">>
s_097H == <<"0", "9", "7", "H">>
s_0K35 == <<"0", "K", "3", "5">>
s_024P == <<"0", "2", "4", "P">>
s_029G == <<"0", "2", "9", "G">>
s_030G == <<"0", "3", "0", "G">>
s_031G == <<"0", "3", "1", "G">>
s_OMNITRANS == <<"O", "M", "N", "I", "T", "R", "A", "N", "S">>
s_NON_CINTAS_space == <<"N", "O", "N", " ", "C", "I", "N", "T", "A", "S">>
s_NONCINTAS == <<"N", "O", "N", "C", "I", "N", "T", "A", "S">>
s_NON_CIN == <<"N", "O", "N", "-", "C", "I", "N">>
s_ORIGIN == <<"O", "R", "I", "G", "I", "N">>
s_DESTINATION == <<"D", "E", "S", "T", "I", "N", "A", "T", "I", "O", "N">>
s_BOTH == <<"B", "O", "T", "H">>
s_us_padded == <<" ", "u", "s", " ">>
s_0123 == <<"0", "1", "2", "3">>

LOCATION_CODES_67N ==
    {<<"0", "2", "9", "N">>, <<"0", "3", "0", "N">>, <<"0", "3", "1", "N">>, <<"0", "3", "2", "N">>,
     <<"0", "3", "3", "N">>, <<"0", "3", "4", "N">>, <<"0", "3", "9", "N">>, <<"0", "4", "2", "N">>,
     <<"0", "4", "5", "N">>, <<"0", "4", "6", "N">>, <<"0", "4", "8", "N">>, <<"0", "5", "5", "N">>,
     <<"0", "6", "0", "N">>, <<"0", "8", "2", "7">>, <<"0", "8", "3", "9">>, <<"0", "8", "4", "7">>,
     <<"0", "8", "5", "0">>, <<"0", "8", "5", "1">>, <<"0", "8", "5", "7">>, <<"0", "8", "8", "1">>,
     <<"0", "8", "8", "2">>, <<"0", "8", "8", "4">>, <<"0", "8", "8", "5">>, <<"0", "8", "8", "6">>,
     <<"0", "8", "8", "8">>, <<"0", "8", "8", "9">>, <<"0", "9", "0", "3">>, <<"0", "9", "5", "1">>,
     <<"0", "W", "1", "7">>}

SPECIAL_CODES == {s_0K35, s_024P, s_067N}

LOCATION_CODES_97H == {s_029G, s_030G, s_031G}

\* " ".join(tokens)
RECURSIVE join_space(_)
join_space(tokens) ==
    IF tokens = <<>> THEN <<>>
    ELSE IF Len(tokens) = 1 THEN Head(tokens)
    ELSE Head(tokens) \o <<" ">> \o join_space(Tail(tokens))

\* row.get(k): None when the row has no such column
row_get(row, k) == IF k \in DOMAIN row THEN row[k] ELSE None

_norm(x) ==
    IF isna(x) THEN <<>>                        \* not isinstance(x, str)
    ELSE LET s == strip(upper(x))
             t == remove_char(remove_char(s, NBSP), ZWSP)
         IN  join_space(split(t))

CarrierKeys == <<"Carrier Name", "Carrier", "CarrierName">>

\* the first of the carrier columns that holds non-blank text, trimmed
RECURSIVE first_carrier(_, _)
first_carrier(row, keys) ==
    IF keys = <<>> THEN <<>>
    ELSE LET v == row_get(row, Head(keys))
         IN  IF ~isna(v) /\ strip(v) # <<>> THEN strip(v)
             ELSE first_carrier(row, Tail(keys))

\* variant: the carrier name is trimmed but its case is kept
_get_carrier_case_kept(row) == first_carrier(row, CarrierKeys)

_get_carrier(row) == lower(first_carrier(row, CarrierKeys))

\* variant: the value is returned as it is, an empty string included
or_NA_as_is(value) == value

\* `value or pd.NA`
or_NA(value) == IF value = <<>> THEN NA ELSE value

\* line 46
matheson_fs_rule(consignor) ==
    contains(lower(consignor), s_matheson) /\ contains(lower(consignor), s_fs)

\* line 49
omnitrans_rule(carrier_lc) == carrier_lc = s_omnitrans

\* variant: the consignor must be exactly AVERITT
averitt_rule_exact(consignor) == consignor = s_AVERITT

\* line 52
averitt_rule(consignor) == contains(consignor, s_AVERITT)

\* line 54
coopetrajes_rule(consignor, consignee) ==
    contains(consignor, s_COOPETRAJES) \/ contains(consignee, s_COOPETRAJES)

ExcludedConsignorCodes == <<s_cintas_0897, s_0897, s_897>>

\* lines 59-63
rule_67N(consignee_code, origin_address, consignor) ==
    /\ consignee_code \in LOCATION_CODES_67N
    /\ startswith(origin_address, s_570_MATH)
    /\ ~\E i \in DOMAIN ExcludedConsignorCodes :
            contains(lower(consignor), ExcludedConsignorCodes[i])

\* {(_norm(k1), _norm(k2)): v for (k1, k2), v in mapping.items()}: the entries of
\* the normalised dictionary under a key; a later entry replaces an earlier one
norm_entries(mapping, key) ==
    {i \in DOMAIN mapping : <<_norm(mapping[i][1]), _norm(mapping[i][2])>> = key}

norm_map_get(mapping, key) == mapping[Max(norm_entries(mapping, key))][3]

non_cintas_aliases == {s_NON_CINTAS, s_NON_CINTAS_space, s_NONCINTAS, s_NON_CIN}

\* variant: the coding matrix is consulted before the special type pairs
determine_profit_center_matrix_first(row, special_mappings, coding_matrix) ==
    LET consignor == _norm(row_get(row, "Consignor"))
        consignee == _norm(row_get(row, "Consignee"))
        consignee_code == _norm(row_get(row, "Consignee Code"))
        consignor_code == _norm(row_get(row, "Consignor Code"))
        origin_address == _norm(row_get(row, "Origin Address"))
        consignor_type == _norm(row_get(row, "Consignor Type"))
        consignee_type == _norm(row_get(row, "Consignee Type"))
        carrier_lc == _get_carrier(row)
        key_norm == <<_norm(consignor_type), _norm(consignee_type)>>
        direction == IF norm_entries(coding_matrix, key_norm) # {}
                     THEN norm_map_get(coding_matrix, key_norm) ELSE None
    IN  IF matheson_fs_rule(consignor) THEN s_067N
        ELSE IF omnitrans_rule(carrier_lc) THEN or_NA(consignee_code)
        ELSE IF averitt_rule(consignor) THEN s_0004
        ELSE IF coopetrajes_rule(consignor, consignee) THEN s_0896
        ELSE IF consignee_code \in SPECIAL_CODES THEN consignee_code
        ELSE IF rule_67N(consignee_code, origin_address, consignor) THEN s_067N
        ELSE IF consignee_code \in LOCATION_CODES_97H THEN s_097H
        ELSE IF direction = s_ORIGIN THEN or_NA(consignor_code)
        ELSE IF direction = s_DESTINATION THEN or_NA(consignee_code)
        ELSE IF norm_entries(special_mappings, key_norm) # {}
             THEN norm_map_get(special_mappings, key_norm)
        ELSE IF startswith(consignor_type, s_US) /\ consignee_type \in non_cintas_aliases
             THEN or_NA(consignor_code)
        ELSE IF startswith(consignee_type, s_US) /\ consignor_type \in non_cintas_aliases
             THEN or_NA(consignee_code)
        ELSE NA

determine_profit_center(row, special_mappings, coding_matrix) ==
    LET consignor == _norm(row_get(row, "Consignor"))
        consignee == _norm(row_get(row, "Consignee"))
        consignee_code == _norm(row_get(row, "Consignee Code"))
        consignor_code == _norm(row_get(row, "Consignor Code"))
        origin_address == _norm(row_get(row, "Origin Address"))
        consignor_type == _norm(row_get(row, "Consignor Type"))
        consignee_type == _norm(row_get(row, "Consignee Type"))
        carrier_lc == _get_carrier(row)
        key_norm == <<_norm(consignor_type), _norm(consignee_type)>>
        direction == IF norm_entries(coding_matrix, key_norm) # {}
                     THEN norm_map_get(coding_matrix, key_norm) ELSE None
    IN  IF matheson_fs_rule(consignor) THEN s_067N
        ELSE IF omnitrans_rule(carrier_lc) THEN or_NA(consignee_code)
        ELSE IF averitt_rule(consignor) THEN s_0004
        ELSE IF coopetrajes_rule(consignor, consignee) THEN s_0896
        ELSE IF consignee_code \in SPECIAL_CODES THEN consignee_code
        ELSE IF rule_67N(consignee_code, origin_address, consignor) THEN s_067N
        ELSE IF consignee_code \in LOCATION_CODES_97H THEN s_097H
        ELSE IF norm_entries(special_mappings, key_norm) # {}
             THEN norm_map_get(special_mappings, key_norm)
        ELSE IF direction = s_ORIGIN THEN or_NA(consignor_code)
        ELSE IF direction = s_DESTINATION THEN or_NA(consignee_code)
        ELSE IF startswith(consignor_type, s_US) /\ consignee_type \in non_cintas_aliases
             THEN or_NA(consignor_code)
        ELSE IF startswith(consignee_type, s_US) /\ consignor_type \in non_cintas_aliases
             THEN or_NA(consignee_code)
        ELSE NA

\* pipeline.py section 8: accrual_df.apply(matrix.determine_profit_center, axis=1)
matrix_mapping(df, special_mappings, coding_matrix) ==
    [i \in DOMAIN df |->
        set_column(df[i], "Assigned Location Code",
                   determine_profit_center(df[i], special_mappings, coding_matrix))]

----------------------------------------------------------------------------
(* SpecMatrix: PipelineRunner.run section 8 on a batch as section 7 leaves it *)

s_029N_zwsp == <<"0", "2", "9", "N", "U+200B">>

\* the special type pairs and the coding matrix are data of the deployment
SpecialTypeMappingChoices ==
    {<<>>,
     << <<s_US, s_NON_CINTAS, s_0K35>>, <<s_us_padded, s_NON_CINTAS, s_0123>> >>}

CodingMatrixChoices ==
    {<< <<s_FC, s_US, s_BOTH>> >>,
     << <<s_US, s_NON_CINTAS, s_DESTINATION>>, <<s_FC, s_US, s_ORIGIN>>,
        <<s_NON_CINTAS, s_NON_CINTAS, s_DESTINATION>> >>}

MatrixConsignors ==
    {s_AVERITT_EXPRESS, s_Matheson_FS, s_CINTAS_897, s_ACME, s_COOPETRAJES, NaN}

MatrixConsignees == {s_ACME, s_Coopetrajes_RL}

\* codes before section 7 formats them
MatrixConsigneeCodes == {s_029N, s_067N, s_029G, s_empty, NA, s_029N_zwsp}

MatrixConsignorCodes == {s_0999, NA}

MatrixTypePairs ==
    {<<s_US, s_NON_CINTAS>>, <<s_FC, s_US>>, <<s_NON_CINTAS, s_NON_CINTAS>>}

\* the street as section 4 reads it ("Origin Addresss") and as the resolver reads
\* it ("Origin Address"); section 4 raises KeyError without the first column
MatrixOrigins ==
    {[s3 |-> s_570_MATHESON_BLVD, s2 |-> Absent],
     [s3 |-> s_570_MATHESON_BLVD, s2 |-> s_570_MATHESON_BLVD],
     [s3 |-> s_1_Main_St, s2 |-> s_1_Main_St]}

MatrixCarriers ==
    {[name |-> s_Omnitrans_sp, carrier |-> Absent],
     [name |-> s_UPS, carrier |-> Absent],
     [name |-> s_space, carrier |-> s_OMNITRANS]}

matrix_shipment(consignor, consignee, ccode, dcode, types, origin, carrier) ==
    drop_absent(
        [c \in {"Invoice Number", "Consignor", "Consignee", "Consignor Code",
                "Consignee Code", "Consignor Type", "Consignee Type",
                "Origin Addresss", "Origin Address", "Carrier Name", "Carrier"} |->
            CASE c = "Invoice Number" -> s_INV1
              [] c = "Consignor" -> consignor
              [] c = "Consignee" -> consignee
              [] c = "Consignor Code" -> format_code(ccode)
              [] c = "Consignee Code" -> format_code(dcode)
              [] c = "Consignor Type" -> fill_non_cintas_value(types[1])
              [] c = "Consignee Type" -> fill_non_cintas_value(types[2])
              [] c = "Origin Addresss" -> origin.s3
              [] c = "Origin Address" -> origin.s2
              [] c = "Carrier Name" -> carrier.name
              [] OTHER -> carrier.carrier])

InitMatrix ==
    /\ pc = "matrix"
    /\ \E consignor \in MatrixConsignors, consignee \in MatrixConsignees,
          ccode \in MatrixConsignorCodes, dcode \in MatrixConsigneeCodes,
          types \in MatrixTypePairs, origin \in MatrixOrigins,
          carrier \in MatrixCarriers, n \in 1..MaxRows :
          accrual_df = typed_batch(matrix_shipment(consignor, consignee, ccode, dcode,
                                                   types, origin, carrier), n)
    /\ \E special \in SpecialTypeMappingChoices, coding \in CodingMatrixChoices :
          args = [special |-> special, coding |-> coding]
    /\ cintas_location_table = <<>>
    /\ location_codes = <<>>
    /\ cons_force_addr = <<>>
    /\ dest_force_addr = <<>>
    /\ result = None

MatrixMapping ==
    /\ pc = "matrix"
    /\ accrual_df' = matrix_mapping(accrual_df, args.special, args.coding)
    /\ pc' = "join"
    /\ UNCHANGED <<cintas_location_table, location_codes, cons_force_addr,
                   dest_force_addr, args, result>>

NextMatrix == MatrixMapping

SpecMatrix == InitMatrix /\ [][NextMatrix]_vars

----------------------------------------------------------------------------
(* Properties of the profit-center resolver *)

Assigned(row) == row["Assigned Location Code"]

\* the record's carrier name is Omnitrans
CarrierNameIsOmnitrans(row) ==
    /\ "Carrier Name" \in DOMAIN row
    /\ ~isna(row["Carrier Name"])
    /\ lower(strip(row["Carrier Name"])) = s_omnitrans

\* Omnitrans in the first carrier column that holds a name
CarrierIsOmnitrans(row) ==
    \E k \in DOMAIN CarrierKeys :
        /\ CarrierKeys[k] \in DOMAIN row
        /\ ~isna(row[CarrierKeys[k]])
        /\ lower(strip(row[CarrierKeys[k]])) = s_omnitrans
        /\ \A j \in 1..(k - 1) :
              CarrierKeys[j] \in DOMAIN row =>
                  (isna(row[CarrierKeys[j]]) \/ strip(row[CarrierKeys[j]]) = <<>>)

\* the record's destination code: the Consignee Code, or unresolved without one
DestinationCode(row) ==
    IF isna(row["Consignee Code"]) \/ _norm(row["Consignee Code"]) = <<>> THEN NA
    ELSE _norm(row["Consignee Code"])

MentionsMathesonFS(row) ==
    /\ ~isna(row["Consignor"])
    /\ contains(lower(row["Consignor"]), s_matheson)
    /\ contains(lower(row["Consignor"]), s_fs)

C9_AverittAlways0004 ==
    pc = "join" =>
        \A i \in DOMAIN accrual_df :
            accrual_df[i]["Consignor"] = s_AVERITT_EXPRESS
                => Assigned(accrual_df[i]) = s_0004

\* C9: every record whose Consignor is AVERITT EXPRESS and whose carrier is not
\* Omnitrans resolves to 0004, for every type pair and every content of the two
\* lookup tables.
C9_Averitt0004UnlessOmnitrans ==
    pc = "join" =>
        \A i \in DOMAIN accrual_df :
            (/\ accrual_df[i]["Consignor"] = s_AVERITT_EXPRESS
             /\ ~CarrierIsOmnitrans(accrual_df[i]))
                => Assigned(accrual_df[i]) = s_0004

\* an AVERITT EXPRESS record whose type pair the special type pairs map to 0K35,
\* resolved to 0004
C9_Witness ==
    /\ pc = "join"
    /\ \E i \in DOMAIN accrual_df :
          /\ accrual_df[i]["Consignor"] = s_AVERITT_EXPRESS
          /\ ~CarrierIsOmnitrans(accrual_df[i])
          /\ accrual_df[i]["Consignor Type"] = s_US
          /\ accrual_df[i]["Consignee Type"] = s_NON_CINTAS
          /\ norm_entries(args.special, <<s_US, s_NON_CINTAS>>) # {}
          /\ Assigned(accrual_df[i]) = s_0004

\* the shipment's origin address: the street of the column the pipeline builds the
\* consignor address from, "Origin Addresss", or of the column "Origin Address"
OriginAddressIs(row, street) ==
    \E c \in {"Origin Addresss", "Origin Address"} \cap DOMAIN row : row[c] = street

References0897(row) == ~isna(row["Consignor"]) /\ contains(row["Consignor"], s_0897)

\* C10: every shipment whose Consignee Code is 029N, whose origin address is
\* 570 MATHESON BLVD and whose Consignor does not reference 0897 is assigned 067N.
C10_MathesonOriginAssigned067N ==
    pc = "join" =>
        \A i \in DOMAIN accrual_df :
            (/\ accrual_df[i]["Consignee Code"] = s_029N
             /\ OriginAddressIs(accrual_df[i], s_570_MATHESON_BLVD)
             /\ ~References0897(accrual_df[i]))
                => Assigned(accrual_df[i]) = s_067N

----------------------------------------------------------------------------
(* references.py and app2.py: the two loaders of the complete coding table *)

\* _canon_code: .astype(str).str.strip().str.upper().str.replace(r"\s+", "")
_canon_code(v) == SelectSeq(upper(strip(str(v))), LAMBDA ch : ch \notin Whitespace)

\* the rows of df, in order, whose index is in keep
RECURSIVE take_rows(_, _)
take_rows(df, keep) ==
    IF df = <<>> THEN <<>>
    ELSE LET init == take_rows(SubSeq(df, 1, Len(df) - 1), keep)
         IN  IF Len(df) \in keep THEN Append(init, df[Len(df)]) ELSE init

\* two rows agree on the columns of subset (a missing value equals a missing value)
same_on(a, b, subset) == \A c \in subset : keys_match(a[c], b[c])

\* variant: keep="last", the last row of every group stays
drop_duplicates_keep_last(df, subset) ==
    take_rows(df, {i \in DOMAIN df :
                      ~\E j \in DOMAIN df : j > i /\ same_on(df[j], df[i], subset)})

\* variant: one pass drops only the second row of every group
drop_duplicates_second_only(df, subset) ==
    take_rows(df, {i \in DOMAIN df :
                      Cardinality({j \in DOMAIN df : j < i /\ same_on(df[j], df[i], subset)}) # 1})

\* df.drop_duplicates(subset=subset): the first row of every group stays
drop_duplicates(df, subset) ==
    take_rows(df, {i \in DOMAIN df :
                      ~\E j \in DOMAIN df : j < i /\ same_on(df[j], df[i], subset)})

\* ReferenceLoader.load, the complete coding table: Loc Code canonical, then one
\* row per Loc Code
ReferenceLoader_load(comp_tbl) ==
    IF comp_tbl # <<>> /\ "Loc Code" \in columns(comp_tbl)
    THEN drop_duplicates([i \in DOMAIN comp_tbl |->
                             [comp_tbl[i] EXCEPT !["Loc Code"] = _canon_code(@)]],
                         {"Loc Code"})
    ELSE comp_tbl

\* app2.load_reference_tables: the workbook as read
load_reference_tables(comp_tbl) == comp_tbl

----------------------------------------------------------------------------
(* pipeline.py sections 9 to 12 *)

s_G59 == <<"G", "5", "9">>
s_G59001 == <<"G", "5", "9", "0", "0", "1">>
s_g59001_sp == <<"g", "5", "9", "0", "0", "1", " ">>
s_P067 == <<"P", "0", "6", "7">>
s_C100 == <<"C", "1", "0", "0">>
s_10_00 == <<"1", "0", ".", "0", "0">>
s_20_00 == <<"2", "0", ".", "0", "0">>

ACCOUNT_INTRA_UNIT == 621000
ACCOUNT_INTER_UNIT == 621020

JoinColumns == <<"Loc Code", "Prof_Cntr", "Cost_Cntr">>

\* section 9 on one row: the rows the left merge makes of it, the two centers renamed
join_row(row, complete_location_table) ==
    LET matches == SelectSeq(complete_location_table,
                             LAMBDA l : keys_match(row["Assigned Location Code"], l["Loc Code"]))
        joined(loc, prof, cost) ==
            set_column(set_column(set_column(row, "Loc Code", loc),
                                  "Profit Center EJ", prof), "Cost Center EJ", cost)
    IN  IF matches = <<>> THEN <<joined(NaN, NaN, NaN)>>
        ELSE [j \in 1..Len(matches) |->
                 joined(matches[j]["Loc Code"], matches[j]["Prof_Cntr"], matches[j]["Cost_Cntr"])]

\* complete_location_table[["Loc Code", "Prof_Cntr", "Cost_Cntr"]] raises KeyError
\* when the table lacks one of the three columns
join_raises(complete_location_table) ==
    \E k \in DOMAIN JoinColumns : JoinColumns[k] \notin columns(complete_location_table)

\* section 9
join_profit_center(df, complete_location_table) ==
    flatten([i \in DOMAIN df |-> join_row(df[i], complete_location_table)])

\* a == b on two cells: "True", "False", or "NA" when pd.NA takes part
py_eq(a, b) ==
    IF a = NA \/ b = NA
    THEN (IF None \in {a, b} THEN "False" ELSE "NA")
    ELSE IF a = NaN \/ b = NaN THEN "False"
    ELSE IF a = b THEN "True" ELSE "False"

\* "G59" in str(row.get("Profit Center EJ", ""))
has_G59(row) ==
    contains(str(IF "Profit Center EJ" \in DOMAIN row THEN row["Profit Center EJ"] ELSE <<>>),
             s_G59)

\* row.get("Consignee Code") == row.get("Assigned Location Code")
code_equals_assigned(row) ==
    py_eq(row_get(row, "Consignee Code"), row_get(row, "Assigned Location Code"))

\* section 10, the lambda: the test of pd.NA raises TypeError
account_ej_raises(row) == ~has_G59(row) /\ code_equals_assigned(row) = "NA"

\* section 10, the lambda
account_ej(row) ==
    IF has_G59(row) THEN ACCOUNT_INTRA_UNIT
    ELSE IF code_equals_assigned(row) = "True" THEN ACCOUNT_INTRA_UNIT
    ELSE ACCOUNT_INTER_UNIT

DedupeColumns == {"Invoice Number", "Paid Amount"}

\* section 11
de_dupe(df) ==
    IF DedupeColumns \subseteq columns(df) THEN drop_duplicates(df, DedupeColumns) ELSE df

\* section 12 on one row
automation_accuracy(row) ==
    IF {"Profit Center", "Profit Center EJ"} \subseteq DOMAIN row
    THEN IF /\ row["Profit Center"] = row["Profit Center EJ"]
            /\ ~isna(row["Profit Center"])
            /\ ~isna(row["Profit Center EJ"])
         THEN 1 ELSE 0
    ELSE 0

----------------------------------------------------------------------------
(* SpecFinish: the loader, then PipelineRunner.run sections 8 to 12, on a batch *)
(* as section 7 leaves it                                                     *)

MaxRecords == 3     \* rows in a batch that is deduplicated

Loaders == {"ReferenceLoader.load", "load_reference_tables"}

complete_row(code, prof, cost) ==
    [c \in {"Loc Code", "Prof_Cntr", "Cost_Cntr"} |->
        CASE c = "Loc Code" -> code
          [] c = "Prof_Cntr" -> prof
          [] OTHER -> cost]

CompleteTables ==
    {<<complete_row(s_029N, s_G59001, s_C100), complete_row(s_067N, s_P067, s_C100)>>,
     <<complete_row(s_029N, s_P067, s_C100), complete_row(s_029N, s_G59001, s_C100),
       complete_row(s_067n_sp, s_P067, s_C100)>>,
     <<complete_row(s_029N, s_empty, s_empty), complete_row(NaN, s_G59001, s_C100)>>,
     <<[c \in {"Prof_Cntr", "Cost_Cntr"} |-> s_P067]>>}

FinishCoding ==
    << <<s_FC, s_US, s_ORIGIN>>, <<s_NON_CINTAS, s_NON_CINTAS, s_DESTINATION>> >>

\* the last pair is in neither lookup table
FinishTypePairs == {<<s_FC, s_US>>, <<s_NON_CINTAS, s_NON_CINTAS>>, <<s_Third_Party, s_FC>>}

ReferenceProfitCenters == {Absent, NaN, s_empty, s_G59001, s_g59001_sp, s_P067}

finish_shipment(invoice, paid, consignee, ccode, dcode, types, profit) ==
    drop_absent(
        [c \in {"Invoice Number", "Paid Amount", "Consignor", "Consignee",
                "Consignor Code", "Consignee Code", "Consignor Type", "Consignee Type",
                "Carrier Name", "Profit Center"} |->
            CASE c = "Invoice Number" -> invoice
              [] c = "Paid Amount" -> paid
              [] c = "Consignor" -> s_ACME
              [] c = "Consignee" -> consignee
              [] c = "Consignor Code" -> ccode
              [] c = "Consignee Code" -> dcode
              [] c = "Consignor Type" -> types[1]
              [] c = "Consignee Type" -> types[2]
              [] c = "Carrier Name" -> s_UPS
              [] OTHER -> profit])

\* one shipment, every field varied
SingleRecords ==
    {<<finish_shipment(s_INV1, paid, s_ACME, ccode, dcode, types, profit)>> :
        paid \in {s_10_00, Absent}, ccode \in {s_029N, NA}, dcode \in {s_029N, s_067N, NA, NaN},
        types \in FinishTypePairs, profit \in ReferenceProfitCenters}

\* the shipments a batch is made of when it is deduplicated
RepeatedRecords(paid_column) ==
    {finish_shipment(invoice, IF paid_column THEN paid ELSE Absent, consignee,
                     NA, s_029N, <<s_NON_CINTAS, s_NON_CINTAS>>, s_G59001) :
        invoice \in {s_INV1, s_INV2}, paid \in {s_10_00, s_20_00},
        consignee \in {s_ACME, s_Coopetrajes_RL}}

InitFinish ==
    /\ pc = "load"
    /\ \/ accrual_df \in SingleRecords
       \/ \E n \in 2..MaxRecords, paid_column \in BOOLEAN :
             accrual_df \in [1..n -> RepeatedRecords(paid_column)]
    /\ \E loader \in Loaders, table \in CompleteTables :
          args = [loader |-> loader, complete_location_table |-> table,
                  special |-> <<>>, coding |-> FinishCoding,
                  input |-> accrual_df, before |-> <<>>, reruns |-> 0]
    /\ cintas_location_table = <<>>
    /\ location_codes = <<>>
    /\ cons_force_addr = <<>>
    /\ dest_force_addr = <<>>
    /\ result = None

\* the caller loads the reference tables and hands them to the run
LoadReferenceTables ==
    /\ pc = "load"
    /\ args' = [args EXCEPT !.complete_location_table =
                    IF args.loader = "ReferenceLoader.load"
                    THEN ReferenceLoader_load(@) ELSE load_reference_tables(@)]
    /\ pc' = "matrix"
    /\ UNCHANGED <<accrual_df, cintas_location_table, location_codes, cons_force_addr,
                   dest_force_addr, result>>

JoinProfitCenter ==
    /\ pc = "join"
    /\ IF join_raises(args.complete_location_table)
       THEN pc' = "raised" /\ result' = KeyError /\ UNCHANGED <<accrual_df, args>>
       ELSE /\ pc' = "account"
            /\ accrual_df' = join_profit_center(accrual_df, args.complete_location_table)
            /\ args' = [args EXCEPT !.before = accrual_df]
            /\ UNCHANGED result
    /\ UNCHANGED <<cintas_location_table, location_codes, cons_force_addr, dest_force_addr>>

AccountEJ ==
    /\ pc = "account"
    /\ IF \E i \in DOMAIN accrual_df : account_ej_raises(accrual_df[i])
       THEN pc' = "raised" /\ result' = TypeError /\ UNCHANGED accrual_df
       ELSE /\ pc' = "dedupe"
            /\ accrual_df' = [i \in DOMAIN accrual_df |->
                                 set_column(accrual_df[i], "Account # EJ",
                                            account_ej(accrual_df[i]))]
            /\ UNCHANGED result
    /\ UNCHANGED <<cintas_location_table, location_codes, cons_force_addr,
                   dest_force_addr, args>>

DeDupe ==
    /\ pc = "dedupe"
    /\ accrual_df' = de_dupe(accrual_df)
    /\ args' = [args EXCEPT !.before = accrual_df]
    /\ pc' = "accuracy"
    /\ UNCHANGED <<cintas_location_table, location_codes, cons_force_addr,
                   dest_force_addr, result>>

\* section 11 run once more, alone, on the batch it produced
DeDupeAgain ==
    /\ pc = "accuracy"
    /\ args.reruns < MaxReruns
    /\ accrual_df' = de_dupe(accrual_df)
    /\ args' = [args EXCEPT !.before = accrual_df, !.reruns = args.reruns + 1]
    /\ UNCHANGED <<pc, cintas_location_table, location_codes, cons_force_addr,
                   dest_force_addr, result>>

\* section 12; section 13 only orders the columns
AutomationAccuracy ==
    /\ pc = "accuracy"
    /\ accrual_df' = [i \in DOMAIN accrual_df |->
                         set_column(accrual_df[i], "Automation Accuracy",
                                    automation_accuracy(accrual_df[i]))]
    /\ pc' = "done"
    /\ UNCHANGED <<cintas_location_table, location_codes, cons_force_addr,
                   dest_force_addr, args, result>>

NextFinish ==
    \/ LoadReferenceTables
    \/ MatrixMapping
    \/ JoinProfitCenter
    \/ AccountEJ
    \/ DeDupe
    \/ DeDupeAgain
    \/ AutomationAccuracy

SpecFinish == InitFinish /\ [][NextFinish]_vars

----------------------------------------------------------------------------
(* Properties of the join, the account rule, deduplication and accuracy *)

Present(v) == ~isna(v)

AccountStageDone == pc \in {"dedupe", "accuracy", "done"}

\* the account the three-way rule gives a record: the marker first, then the
\* comparison of the two codes (two missing codes are left to either account)
AccountRule(row) ==
    IF Present(row["Profit Center EJ"]) /\ contains(row["Profit Center EJ"], s_G59)
    THEN {ACCOUNT_INTRA_UNIT}
    ELSE IF Present(row["Consignee Code"]) /\ Present(row["Assigned Location Code"])
         THEN IF row["Consignee Code"] = row["Assigned Location Code"]
              THEN {ACCOUNT_INTRA_UNIT} ELSE {ACCOUNT_INTER_UNIT}
    ELSE IF Present(row["Consignee Code"]) \/ Present(row["Assigned Location Code"])
         THEN {ACCOUNT_INTER_UNIT}
    ELSE {ACCOUNT_INTRA_UNIT, ACCOUNT_INTER_UNIT}

\* C11: the account stage gives every record an Account # EJ by the three-way rule:
\* 621000 when Profit Center EJ contains G59, otherwise 621000 exactly when the
\* Consignee Code equals the Assigned Location Code, and 621020 in every other case.
C11_AccountThreeWayRule ==
    /\ ~(pc = "raised" /\ result = TypeError)
    /\ AccountStageDone =>
          \A i \in DOMAIN accrual_df :
              accrual_df[i]["Account # EJ"] \in AccountRule(accrual_df[i])

\* a profit center that is missing: no such column, a null, or a blank string
MissingCenter(row, column) ==
    \/ column \notin DOMAIN row
    \/ isna(row[column])
    \/ strip(row[column]) = <<>>

\* C12: Automation Accuracy is 0 for every record whose reference Profit Center or
\* resolved Profit Center EJ is missing, two blank strings included.
C12_MissingCenterScoresZero ==
    pc = "done" =>
        \A i \in DOMAIN accrual_df :
            (MissingCenter(accrual_df[i], "Profit Center")
                \/ MissingCenter(accrual_df[i], "Profit Center EJ"))
            => accrual_df[i]["Automation Accuracy"] = 0

\* both centers present and equal once trimmed and upper-cased
EqualNormalized(row) ==
    /\ "Profit Center" \in DOMAIN row
    /\ Present(row["Profit Center"])
    /\ Present(row["Profit Center EJ"])
    /\ upper(strip(row["Profit Center"])) = upper(strip(row["Profit Center EJ"]))

\* C13: Automation Accuracy is 1 exactly when both profit centers are present and
\* equal as strings after normalization, and 0 in every other case.
C13_AccuracyIsNormalizedEquality ==
    pc = "done" =>
        \A i \in DOMAIN accrual_df :
            accrual_df[i]["Automation Accuracy"] = (IF EqualNormalized(accrual_df[i]) THEN 1 ELSE 0)

SamePair(a, b) == \A c \in DedupeColumns : keys_match(a[c], b[c])

\* the first row of df that carries the (Invoice Number, Paid Amount) pair of row
FirstCarrying(df, row) == Min({i \in DOMAIN df : SamePair(df[i], row)})

\* after is before with exactly the first record of every pair, in batch order
FirstOfEveryPair(before, after) ==
    /\ \A i \in DOMAIN before : \E j \in DOMAIN after : SamePair(before[i], after[j])
    /\ \A j \in DOMAIN after :
          /\ \E i \in DOMAIN before : SamePair(before[i], after[j])
          /\ after[j] = before[FirstCarrying(before, after[j])]
    /\ \A j, k \in DOMAIN after :
          j < k => FirstCarrying(before, after[j]) < FirstCarrying(before, after[k])

\* C14: with both Invoice Number and Paid Amount present the deduplication step
\* keeps exactly the first record of every pair, in batch order; with either
\* column absent it leaves the batch unchanged; it never raises.
C14_DedupKeepsFirstOfPair ==
    [][/\ pc = "dedupe" =>
            /\ pc' = "accuracy"
            /\ IF DedupeColumns \subseteq columns(accrual_df)
               THEN FirstOfEveryPair(accrual_df, accrual_df')
               ELSE accrual_df' = accrual_df
      ]_vars

\* deduplicated: of two records with one pair the later one, which differs from
\* the first in its Consignee, is gone
C14_Witness ==
    /\ pc = "accuracy"
    /\ args.reruns = 0
    /\ DedupeColumns \subseteq columns(accrual_df)
    /\ \E i, k \in DOMAIN args.before :
          /\ i < k
          /\ SamePair(args.before[i], args.before[k])
          /\ args.before[i]["Consignee"] # args.before[k]["Consignee"]
          /\ \E j \in DOMAIN accrual_df : accrual_df[j] = args.before[i]
          /\ \A j \in DOMAIN accrual_df : accrual_df[j] # args.before[k]

\* C15: the deduplication step applied to a batch it has already deduplicated
\* removes no record and changes no field.
C15_DedupIdempotent ==
    [][/\ (pc = "accuracy" /\ pc' = "accuracy") => accrual_df' = accrual_df
      ]_vars

\* run again on a batch whose first pass removed two records of the same pair
C15_Witness ==
    /\ pc = "accuracy"
    /\ args.reruns >= 1
    /\ DedupeColumns \subseteq columns(accrual_df)
    /\ Len(args.input) = Len(accrual_df) + 2
    /\ \A i, k \in DOMAIN args.input : SamePair(args.input[i], args.input[k])

\* C20: the join against the complete coding table is many-to-one: every shipment
\* record yields one joined record, whatever Loc Code rows the raw table repeats.
C20_JoinManyToOne ==
    [][/\ (pc = "join" /\ pc' = "account") => Len(accrual_df') = Len(accrual_df)
      ]_vars

----------------------------------------------------------------------------
(* clean_codes.py: CodeFormatter (not among the sources; the padding is the one *)
(* the type mapper repeats: fixed width, upper case, a missing code left alone)  *)

pad_codes(df, cols) ==
    [i \in DOMAIN df |->
        [c \in DOMAIN df[i] |-> IF c \in cols THEN format_code(df[i][c]) ELSE df[i][c]]]

CodeColumns == {"Consignor Code", "Consignee Code"}

----------------------------------------------------------------------------
(* SpecRun: PipelineRunner.run from the call to the return, on a batch *)

ValueError == <<"ValueError">>

\* variant: rename(..., inplace=True), which hands the caller's object on
rename_inplace(df) == [object |-> "caller", value |-> df]

\* df.rename(columns=lambda c: c.strip() ...): a new object with the rows of df (the
\* column names of the tables here carry no outer whitespace)
rename(df) == [object |-> "run", value |-> df]

\* the column names under which the code dictionary is accepted
CodeColumnNames == {"Code", "Codes"}

\* the type pairs of the deployment's coding matrix that the batches meet
RunCoding ==
    << <<s_US, s_US, s_DESTINATION>>, <<s_US, s_NON_CINTAS, s_ORIGIN>>,
       <<s_NON_CINTAS, s_NON_CINTAS, s_DESTINATION>> >>

\* a party the name resolves, one the direct attribute resolves, one nothing resolves
RunPartyNamed ==
    [name |-> s_CINTAS_067N_SOVEREIGN, code |-> NaN, type |-> NaN, attr |-> s_empty,
     street |-> s_14601_Sovereign_Rd]

RunPartyAttributed ==
    [name |-> s_ACME, code |-> NaN, type |-> NaN, attr |-> s_029N, street |-> s_1_Main_St]

RunPartyUnknown ==
    [name |-> s_ACME, code |-> NaN, type |-> NaN, attr |-> s_empty, street |-> s_1_Main_St]

run_shipment(cons, dest) ==
    set_column(
        set_column(
            set_column(shipment(cons, dest, s_UPS), "Invoice Number",
                       IF cons = RunPartyNamed THEN s_INV1 ELSE s_INV2),
            "Paid Amount", s_10_00),
        "Profit Center", s_G59001)

RunRecords ==
    {run_shipment(cons, dest) : cons \in {RunPartyNamed, RunPartyUnknown},
                                dest \in {RunPartyAttributed, RunPartyUnknown}}

\* the code dictionary as the caller passes it: a table with one column
RunDictionaries ==
    {[column |-> name, values |-> <<s_67N, s_067N>>] : name \in {"Code", "Name"}}

InitRun ==
    /\ pc = "call"
    /\ \E n \in 1..MaxRecords : accrual_df \in [1..n -> RunRecords]
    /\ cintas_location_table \in LocationTables
    /\ \E dictionary \in RunDictionaries, table \in CompleteTables :
          args = [location_codes_df |-> dictionary,
                  cintas_location_table |-> cintas_location_table,
                  working_table |-> "caller",
                  complete_location_table |-> table,
                  special |-> <<>>, coding |-> RunCoding,
                  input |-> accrual_df, before |-> <<>>, reruns |-> 0]
    /\ location_codes = <<>>
    /\ cons_force_addr = <<>>
    /\ dest_force_addr = <<>>
    /\ result = None

\* sections 0 and 1: the run works on renamed copies of the batch and the tables
\* (args.cintas_location_table is the table as the caller passed it, and
\* args.working_table the object the stages write from here on), adds the required
\* columns, then takes the code column of the dictionary
StartRun ==
    /\ pc = "call"
    /\ accrual_df' = [i \in Rows |-> add_required_columns(accrual_df[i])]
    /\ IF args.location_codes_df.column \in CodeColumnNames
       THEN /\ location_codes' = args.location_codes_df.values
            /\ pc' = "priority"
            /\ UNCHANGED result
       ELSE /\ pc' = "raised"
            /\ result' = ValueError
            /\ UNCHANGED location_codes
    /\ cintas_location_table' = rename(cintas_location_table).value
    /\ args' = [args EXCEPT !.working_table = rename(cintas_location_table).object]
    /\ UNCHANGED <<cons_force_addr, dest_force_addr>>

\* variant: after the codes are formatted the run goes straight to the resolver
PadCodes_then_matrix ==
    /\ pc = "format"
    /\ accrual_df' = pad_codes(accrual_df, CodeColumns)
    /\ pc' = "matrix"
    /\ UNCHANGED <<cintas_location_table, location_codes, cons_force_addr,
                   dest_force_addr, args, result>>

\* section 6
PadCodes ==
    /\ pc = "format"
    /\ accrual_df' = pad_codes(accrual_df, CodeColumns)
    /\ pc' = "types"
    /\ UNCHANGED <<cintas_location_table, location_codes, cons_force_addr,
                   dest_force_addr, args, result>>

NextRun ==
    \/ StartRun
    \/ TypeCodePriority
    \/ ExtractFromText
    \/ BlankInvalidCodes
    \/ CombinedAddresses
    \/ AddressMerge
    \/ PadCodes
    \/ MapConsignorTypes
    \/ MapConsigneeTypes
    \/ FillNonCintas
    \/ MatrixMapping
    \/ JoinProfitCenter
    \/ AccountEJ
    \/ DeDupe
    \/ AutomationAccuracy

SpecRun == InitRun /\ [][NextRun]_vars

----------------------------------------------------------------------------
(* Properties of a whole run *)

\* a record neither of whose party codes any stage has resolved
Unresolved(row) == isna(row["Consignor Code"]) /\ isna(row["Consignee Code"])

ResolutionMissRecorded(row) ==
    /\ row["Consignor Type"] = s_NON_CINTAS
    /\ row["Consignee Type"] = s_NON_CINTAS
    /\ isna(row["Assigned Location Code"])
    /\ isna(row["Profit Center EJ"])
    /\ isna(row["Cost Center EJ"])
    /\ row["Automation Accuracy"] = 0

\* C16: a record for which no stage resolves a party code never makes the run
\* raise, and the finished run gives it blank party codes, the type NON-CINTAS, an
\* unresolved Assigned Location Code, blank Profit Center EJ and Cost Center EJ
\* and Automation Accuracy 0.
C16_ResolutionMissFlowsThrough ==
    /\ (pc = "raised" /\ result = TypeError) =>
          \A i \in DOMAIN accrual_df :
              Unresolved(accrual_df[i]) => ~account_ej_raises(accrual_df[i])
    /\ pc = "done" =>
          \A i \in DOMAIN accrual_df :
              Unresolved(accrual_df[i]) => ResolutionMissRecorded(accrual_df[i])

\* a run halted by a reference table that lacks a required column
ConfigurationError == pc = "raised" /\ result \in {ValueError, KeyError}

\* no stage has touched the batch or the location attribute table of the run
NoStageHasRun ==
    /\ accrual_df = [i \in DOMAIN args.input |-> add_required_columns(args.input[i])]
    /\ cintas_location_table = args.cintas_location_table

\* C17: when the code dictionary has no code column or the complete coding table
\* has no Loc Code column, the run raises before any resolution stage has run or
\* modified a table, and it returns no batch.
C17_ConfigurationErrorBeforeAnyStage ==
    /\ ConfigurationError => NoStageHasRun
    /\ pc = "done" =>
          /\ args.location_codes_df.column \in CodeColumnNames
          /\ "Loc Code" \in columns(args.complete_location_table)

\* the location attribute table the caller holds: the object it passed in
CallerLocationTable ==
    IF args.working_table = "caller" THEN cintas_location_table
    ELSE args.cintas_location_table

computed(f) == IF f = <<>> THEN <<>> ELSE f

PipelineRunner_run(df, cintas, complete, dictionary, special, coding) ==
    LET s0 == [i \in DOMAIN df |-> add_required_columns(df[i])]
        s2 == computed([i \in DOMAIN df |->
                  type_code_priority(
                      type_code_priority(s0[i], "Org Type Code", "Consignor Code"),
                      "Dest Type Code", "Consignee Code")])
        s3 == computed([i \in DOMAIN df |->
                  extract_from_name(
                      extract_from_name(s2[i], "Consignor", "Consignor Code",
                                        "Consignor Type", dictionary),
                      "Consignee", "Consignee Code", "Consignee Type", dictionary)])
        cons_force == computed([i \in DOMAIN df |-> code_invalid(s3[i]["Consignor Code"], cintas)])
        dest_force == computed([i \in DOMAIN df |-> code_invalid(s3[i]["Consignee Code"], cintas)])
        s3b == computed([i \in DOMAIN df |->
                   blank_invalid(blank_invalid(s3[i], "Consignor Code", cintas),
                                 "Consignee Code", cintas)])
        table == computed([i \in DOMAIN cintas |->
                     create_combined_address(cintas[i], "Combined Address",
                                             "Loc_Address", "Loc_City", "Loc_ST")])
        s4 == computed([i \in DOMAIN df |->
                  create_combined_address(
                      create_combined_address(s3b[i], "Consignee Combined Address",
                                              "Dest Address1", "Dest City", "Dest State Code"),
                      "Consignor Combined Address",
                      "Origin Addresss", "Origin City", "Origin State Code")])
        s5 == computed(address_merge_all(s4, table, cons_force, dest_force))
        s6 == computed(pad_codes(s5, CodeColumns))
        s7 == computed(fill_non_cintas(
                  map_types(map_types(s6, table, "Consignor Code", "Consignor Type"),
                            format_loc_codes(table), "Consignee Code", "Consignee Type"),
                  TypeColumns))
        s8 == computed(matrix_mapping(s7, special, coding))
        s9 == computed(join_profit_center(s8, complete))
        s10 == computed([i \in DOMAIN s9 |-> set_column(s9[i], "Account # EJ", account_ej(s9[i]))])
        s11 == computed(de_dupe(s10))
    IN  [i \in DOMAIN s11 |->
            set_column(s11[i], "Automation Accuracy", automation_accuracy(s11[i]))]

\* what the run returns for one record of the batch when the record is run alone
\* against the same reference tables
RunAlone(record) ==
    PipelineRunner_run(<<record>>, args.cintas_location_table, args.complete_location_table,
                       args.location_codes_df.values, args.special, args.coding)

\* C19: resolution is row-independent: every record a finished run returns carries
\* exactly the codes, types, Assigned Location Code, Profit/Cost Center EJ,
\* Account # EJ and Automation Accuracy that its shipment gets when it is run alone
\* against the same reference tables, and every shipment of the batch has its
\* records in the output unless an earlier shipment carries its (Invoice Number,
\* Paid Amount) pair.
C19_RowIndependent ==
    pc = "done" =>
        /\ \A j \in DOMAIN accrual_df :
              \E i \in DOMAIN args.input : accrual_df[j] \in Range(RunAlone(args.input[i]))
        /\ \A i \in DOMAIN args.input :
              \/ \E k \in 1..(i - 1) : SamePair(args.input[k], args.input[i])
              \/ Range(RunAlone(args.input[i])) \subseteq Range(accrual_df)

\* a finished run of two different shipments, resolved to different codes: one by
\* the name of its consignor, the other by the direct attribute of its consignee
C19_Witness ==
    /\ pc = "done"
    /\ Len(args.input) >= 2
    /\ args.input[1] # args.input[2]
    /\ \E i, j \in DOMAIN accrual_df :
          /\ accrual_df[i]["Invoice Number"] # accrual_df[j]["Invoice Number"]
          /\ accrual_df[i]["Assigned Location Code"] = s_067N
          /\ accrual_df[j]["Assigned Location Code"] = s_029N
          /\ accrual_df[i] \in Range(RunAlone(args.input[1]))
          /\ accrual_df[j] \in Range(RunAlone(args.input[2]))

----------------------------------------------------------------------------
(* SpecOptional: PipelineRunner.run on a batch that lacks optional columns *)

OptionalColumns ==
    {"Origin Addresss", "Origin City", "Origin State Code", "Dest Address1", "Dest City",
     "Dest State Code", "Carrier Name", "Org Type Code", "Dest Type Code", "Profit Center"}

\* the columns a batch lacks: none, any one, or everything but the addresses
AbsentColumnSets ==
    {{}} \cup {{c} : c \in OptionalColumns}
         \cup {{"Carrier Name", "Org Type Code", "Dest Type Code", "Profit Center"}}

without_columns(row, cols) == [c \in DOMAIN row \ cols |-> row[c]]

OptionalCompleteTable ==
    <<complete_row(s_029N, s_G59001, s_C100), complete_row(s_067N, s_P067, s_C100)>>

InitOptional ==
    /\ pc = "call"
    /\ \E record \in RunRecords, absent \in AbsentColumnSets :
          accrual_df = <<without_columns(record, absent)>>
    /\ cintas_location_table \in LocationTables
    /\ args = [location_codes_df |-> [column |-> "Code", values |-> <<s_67N, s_067N>>],
               cintas_location_table |-> cintas_location_table,
               working_table |-> "caller",
               complete_location_table |-> OptionalCompleteTable,
               special |-> <<>>, coding |-> RunCoding,
               input |-> accrual_df, before |-> <<>>, reruns |-> 0]
    /\ location_codes = <<>>
    /\ cons_force_addr = <<>>
    /\ dest_force_addr = <<>>
    /\ result = None

SpecOptional == InitOptional /\ [][NextRun]_vars

\* the batch with every optional column it lacks added as an empty text column
with_empty_columns(df) ==
    [i \in DOMAIN df |->
        [c \in DOMAIN df[i] \cup OptionalColumns |->
            IF c \in DOMAIN df[i] THEN df[i][c] ELSE s_empty]]

ResolvedColumns ==
    {"Consignor Code", "Consignee Code", "Consignor Type", "Consignee Type",
     "Assigned Location Code", "Profit Center EJ", "Cost Center EJ", "Account # EJ",
     "Automation Accuracy"}

\* C21: a batch that lacks optional input columns never makes the run raise for the
\* absence, and the finished run resolves every record as it resolves the batch whose
\* absent columns are present and empty.
C21_OptionalColumnsSynthesized ==
    /\ ~(pc = "raised" /\ result = KeyError)
    /\ pc = "done" =>
          LET full == PipelineRunner_run(with_empty_columns(args.input),
                                         args.cintas_location_table,
                                         args.complete_location_table,
                                         args.location_codes_df.values,
                                         args.special, args.coding)
          IN  /\ Len(full) = Len(accrual_df)
              /\ \A i \in DOMAIN accrual_df : \A c \in ResolvedColumns :
                    accrual_df[i][c] = full[i][c]

----------------------------------------------------------------------------
(* Properties of the fallback, the resolver's matrix lookup and the address key *)

\* section 3B has found the party's code invalid and cleared it
ForcedToAddress(i, p) ==
    IF p.code = "Consignor Code" THEN cons_force_addr[i] ELSE dest_force_addr[i]

\* the Loc Codes the table's address mapping holds under the key
MappedCodes(table, key) == {table[j]["Loc Code"] : j \in addr_rows(table, key)}

\* C22: a party whose code section 3B has cleared as invalid gets, from the address
\* fallback, the Loc Code mapped to its combined-address key when the key is in the
\* table's mapping, and keeps a blank code otherwise.
C22_InvalidCodeFallsBackToAddress ==
    (pc = "format" /\ args.reruns = 0) =>
        \A i \in Rows : \A p \in Parties :
            ForcedToAddress(i, p) =>
                IF MappedCodes(cintas_location_table, accrual_df[i][p.addr]) # {}
                THEN accrual_df[i][p.code]
                        \in MappedCodes(cintas_location_table, accrual_df[i][p.addr])
                ELSE ~NonBlank(accrual_df[i][p.code])

\* the record's origin code: the Consignor Code, or unresolved without one
OriginCode(row) ==
    IF isna(row["Consignor Code"]) \/ _norm(row["Consignor Code"]) = <<>> THEN NA
    ELSE _norm(row["Consignor Code"])

ConsignorMentions(row, text) ==
    ~isna(row["Consignor"]) /\ contains(upper(row["Consignor"]), text)

ConsigneeMentions(row, text) ==
    ~isna(row["Consignee"]) /\ contains(upper(row["Consignee"]), text)

\* the street the resolver reads starts with 570 MATH
OriginStartsWith570Math(row) ==
    /\ "Origin Address" \in DOMAIN row
    /\ ~isna(row["Origin Address"])
    /\ startswith(_norm(row["Origin Address"]), s_570_MATH)

\* none of the override rules 1-6 applies to the record: Matheson FS, Omnitrans,
\* the customer names, the special destination codes, the 67N and the 97H groups
NoOverrideRule(row) ==
    /\ ~MentionsMathesonFS(row)
    /\ ~CarrierIsOmnitrans(row)
    /\ ~ConsignorMentions(row, s_AVERITT)
    /\ ~ConsignorMentions(row, s_COOPETRAJES)
    /\ ~ConsigneeMentions(row, s_COOPETRAJES)
    /\ DestinationCode(row) \notin SPECIAL_CODES
    /\ ~(/\ DestinationCode(row) \in LOCATION_CODES_67N
         /\ OriginStartsWith570Math(row)
         /\ ~ConsignorMentions(row, s_897))
    /\ DestinationCode(row) \notin LOCATION_CODES_97H

\* the record's normalised (Consignor Type, Consignee Type) pair
TypePair(row) == <<_norm(row["Consignor Type"]), _norm(row["Consignee Type"])>>

\* the override codes the special type pairs hold for the pair
OverrideCodes(special, pair) == {special[j][3] : j \in norm_entries(special, pair)}

\* the directions the coding matrix holds for the pair
Directions(coding, pair) == {coding[j][3] : j \in norm_entries(coding, pair)}

\* C23: when no override rule 1-6 applies, a pair found in the special type pairs
\* resolves to its override code whatever the coding matrix says; only a pair that
\* is not there is looked up in the coding matrix, and resolves to the consignor
\* code under ORIGIN and to the consignee code under DESTINATION.
C23_SpecialPairsBeforeCodingMatrix ==
    pc = "join" =>
        \A i \in DOMAIN accrual_df :
            LET row == accrual_df[i]
                overrides == OverrideCodes(args.special, TypePair(row))
                directions == Directions(args.coding, TypePair(row))
            IN  NoOverrideRule(row) =>
                    /\ overrides # {} => Assigned(row) \in overrides
                    /\ (overrides = {} /\ directions = {s_ORIGIN})
                            => Assigned(row) = OriginCode(row)
                    /\ (overrides = {} /\ directions = {s_DESTINATION})
                            => Assigned(row) = DestinationCode(row)

\* a record no override rule applies to, whose pair the special type pairs map to
\* 0123 and the coding matrix to DESTINATION, resolved to 0123 and not to its
\* consignee code
C23_Witness ==
    /\ pc = "join"
    /\ \E i \in DOMAIN accrual_df :
          /\ NoOverrideRule(accrual_df[i])
          /\ OverrideCodes(args.special, TypePair(accrual_df[i])) # {}
          /\ Directions(args.coding, TypePair(accrual_df[i])) = {s_DESTINATION}
          /\ Assigned(accrual_df[i]) = s_0123
          /\ DestinationCode(accrual_df[i]) # s_0123

\* the pair is in neither table, or the coding matrix gives it no direction the
\* resolver follows, and the record is not one of the US / NON-CINTAS patterns
NoRuleMatches(row) ==
    /\ NoOverrideRule(row)
    /\ OverrideCodes(args.special, TypePair(row)) = {}
    /\ Directions(args.coding, TypePair(row)) \cap {s_ORIGIN, s_DESTINATION} = {}
    /\ ~(startswith(TypePair(row)[1], s_US) /\ TypePair(row)[2] \in non_cintas_aliases)
    /\ ~(startswith(TypePair(row)[2], s_US) /\ TypePair(row)[1] \in non_cintas_aliases)

\* the rule that applies hands the record to a party that has no code
SelectedPartyHasNoCode(row) ==
    \/ /\ ~MentionsMathesonFS(row)
       /\ CarrierIsOmnitrans(row)
       /\ DestinationCode(row) = NA
    \/ /\ NoOverrideRule(row)
       /\ OverrideCodes(args.special, TypePair(row)) = {}
       /\ \/ Directions(args.coding, TypePair(row)) = {s_ORIGIN} /\ OriginCode(row) = NA
          \/ /\ Directions(args.coding, TypePair(row)) = {s_DESTINATION}
             /\ DestinationCode(row) = NA

\* C24: the resolver gives every record, records with missing, null or non-text
\* fields included, either a non-empty location code or the unresolved marker,
\* never an error and never an empty string; and it gives the unresolved marker
\* when no rule matches or the rule that matches selects a party without a code.
C24_ResolverTotal ==
    pc = "join" =>
        \A i \in DOMAIN accrual_df :
            LET row == accrual_df[i]
            IN  /\ Assigned(row) \notin {Raised, KeyError, TypeError, None, NaN, <<>>}
                /\ (NoRuleMatches(row) \/ SelectedPartyHasNoCode(row))
                        => Assigned(row) = NA

\* an Omnitrans record whose Consignor is not text and whose Consignee Code is
\* missing, left unresolved
C24_Witness ==
    /\ pc = "join"
    /\ \E i \in DOMAIN accrual_df :
          /\ isna(accrual_df[i]["Consignor"])
          /\ SelectedPartyHasNoCode(accrual_df[i])
          /\ CarrierIsOmnitrans(accrual_df[i])
          /\ Assigned(accrual_df[i]) = NA

----------------------------------------------------------------------------
(* SpecAddress: the combined-address key of one street, city and state *)

\* a cell of an address column: text, an empty cell as pandas reads it (NaN), a
\* missing value of a nullable column (pd.NA) or of an object column (None)
AddressStreets ==
    {s_14601_Sovereign_Rd, s_1_Main_St, s_empty, s_space, None, NaN, NA}

AddressCities == {s_Ft_Worth, s_FT_WORTH, s_empty, None, NaN, NA}

AddressStates == {s_TX, s_empty, None, NaN, NA}

InitAddress ==
    /\ pc = "address"
    /\ \E street \in AddressStreets, city \in AddressCities, state \in AddressStates :
          args = [street |-> street, city |-> city, state |-> state]
    /\ result = None
    /\ accrual_df = <<>>
    /\ cintas_location_table = <<>>
    /\ location_codes = <<>>
    /\ cons_force_addr = <<>>
    /\ dest_force_addr = <<>>

\* first_street + norm_city + norm_state of one row
CreateCombinedAddress ==
    /\ pc = "address"
    /\ result' = combined_address(args.street, args.city, args.state)
    /\ pc' = "address_done"
    /\ UNCHANGED <<accrual_df, cintas_location_table, location_codes,
                   cons_force_addr, dest_force_addr, args>>

NextAddress == CreateCombinedAddress

SpecAddress == InitAddress /\ [][NextAddress]_vars

\* upper case without blanks and punctuation; a null or empty value gives ""
Normalized(v) ==
    IF isna(v) THEN <<>> ELSE strip(remove_chars(upper(v), AddressPunctuation))

\* the first whitespace-delimited token of the street, "" when it has none
FirstToken(v) ==
    IF isna(v) THEN <<>>
    ELSE IF split(strip(v)) = <<>> THEN <<>> ELSE split(strip(v))[1]

\* C25: for every street, city and state, empty and null ones included, the key
\* is built without error and is normalize(first token of the street) +
\* normalize(city) + normalize(state), a null or empty value normalizing to the
\* empty string; with an empty or null street it is normalize(city) +
\* normalize(state).
C25_CombinedAddressOfNulls ==
    pc = "address_done" =>
        /\ result # Raised
        /\ result = Normalized(FirstToken(args.street)) \o Normalized(args.city)
                        \o Normalized(args.state)
        /\ (isna(args.street) \/ args.street = <<>>)
                => result = Normalized(args.city) \o Normalized(args.state)

----------------------------------------------------------------------------
(* Properties of the order of the stages *)

\* the positions of a run, from the call to the return: direct-attribute adoption,
\* text extraction, invalid-code clearing, combined addresses, address fallback,
\* code formatting, type classification (both parties) and defaulting, resolution,
\* the join, the account rule, deduplication and accuracy scoring
StageOrder ==
    <<"call", "priority", "extract", "invalid", "combine", "merge", "format",
      "types", "types_consignee", "clean", "matrix", "join", "account", "dedupe",
      "accuracy", "done">>

\* C26: in every run each stage starts where its predecessor in the fixed order
\* has finished, and nowhere else: every step of a run takes it from one stage to
\* the next one of the order, or halts it with an error; so a run that returns has
\* executed every stage once, in that order.
C26_StagesInFixedOrder ==
    [][/\ \/ pc' = "raised"
          \/ \E k \in 1..(Len(StageOrder) - 1) :
                pc = StageOrder[k] /\ pc' = StageOrder[k + 1]
      ]_vars

\* a run that has returned a batch with an accuracy score
C26_Witness ==
    /\ pc = "done"
    /\ accrual_df # <<>>
    /\ \A i \in DOMAIN accrual_df : "Automation Accuracy" \in DOMAIN accrual_df[i]

----------------------------------------------------------------------------
(* Frame properties of the direct-attribute step and of the extraction *)

\* C27: the direct-attribute step leaves a party's code as it was for every record
\* whose Org/Dest Type Code is blank, null or absent.
C27_BlankAttributeKeepsCode ==
    [][/\ pc = "priority" =>
            \A i \in Rows : \A p \in Parties :
                ~AttrNonBlank(accrual_df[i], p)
                    => accrual_df'[i][p.code] = accrual_df[i][p.code]
      ]_vars

----------------------------------------------------------------------------
(* extract_codes.py: Extractor.extract_from_consignor_consignee *)

_needs_fill(code_val, type_val) ==
    LET code_str == IF code_val = None THEN <<>> ELSE strip(str(code_val))
        type_str == IF type_val = None THEN <<>> ELSE strip(upper(str(type_val)))
    IN  code_str = <<>> \/ type_str = <<>> \/ contains(type_str, s_THIRD)

\* the lambda of one party: row.get(code), row.get(type, "")
extractor_fill(row, name_col, code_col, type_col, series) ==
    IF _needs_fill(row_get(row, code_col),
                   IF type_col \in DOMAIN row THEN row[type_col] ELSE <<>>)
    THEN _extract_from_text(row[name_col], series)
    ELSE row_get(row, code_col)

extract_from_consignor_consignee(df, codes_df) ==
    LET series == _get_codes_series(codes_df)
        consignor == IF "Consignor" \in columns(df)
                     THEN [i \in DOMAIN df |->
                              set_column(df[i], "Consignor Code",
                                         extractor_fill(df[i], "Consignor", "Consignor Code",
                                                        "Consignor Type", series))]
                     ELSE df
    IN  IF "Consignee" \in columns(consignor)
        THEN [i \in DOMAIN consignor |->
                 set_column(consignor[i], "Consignee Code",
                            extractor_fill(consignor[i], "Consignee", "Consignee Code",
                                           "Consignee Type", series))]
        ELSE consignor

----------------------------------------------------------------------------
(* SpecExtractor: the Extractor's extraction on a batch of one shipment *)

ExtractorParties ==
    [name : {s_CINTAS_067N_SOVEREIGN, s_ACME, None},
     code : {None, NaN, s_empty, s_029N},
     type : {NaN, None, s_empty, s_Third_Party, s_US}]

ExtractorOtherParty == [name |-> s_ACME, code |-> s_029N, type |-> s_US]

ExtractorDictionaries == {<<s_67N, s_067N>>, <<s_0999>>}

extractor_shipment(cons, dest) ==
    [c \in {"Consignor", "Consignee", "Consignor Code", "Consignee Code",
            "Consignor Type", "Consignee Type"} |->
        CASE c = "Consignor" -> cons.name
          [] c = "Consignee" -> dest.name
          [] c = "Consignor Code" -> cons.code
          [] c = "Consignee Code" -> dest.code
          [] c = "Consignor Type" -> cons.type
          [] OTHER -> dest.type]

InitExtractor ==
    /\ pc = "extractor"
    /\ \E party \in ExtractorParties :
          \/ accrual_df = <<extractor_shipment(party, ExtractorOtherParty)>>
          \/ accrual_df = <<extractor_shipment(ExtractorOtherParty, party)>>
    /\ location_codes \in ExtractorDictionaries
    /\ cintas_location_table = <<>>
    /\ cons_force_addr = <<>>
    /\ dest_force_addr = <<>>
    /\ args = [input |-> accrual_df]
    /\ result = None

Call_extract_from_consignor_consignee ==
    /\ pc = "extractor"
    /\ accrual_df' = extract_from_consignor_consignee(accrual_df, location_codes)
    /\ pc' = "extractor_done"
    /\ UNCHANGED <<cintas_location_table, location_codes, cons_force_addr,
                   dest_force_addr, args, result>>

NextExtractor == Call_extract_from_consignor_consignee

SpecExtractor == InitExtractor /\ [][NextExtractor]_vars

\* no code of the dictionary stands in the party name as a whole token
NothingFound(name, codes) ==
    isna(name) \/ ~\E c \in DictionaryCodes(codes) : OccursAsToken(c, NameText(name))

\* C28: when no dictionary code occurs as a token of the party name, the
\* extraction leaves a non-blank party code as it was: it neither clears nor
\* replaces it.
C28_NothingFoundKeepsCode ==
    pc = "extractor_done" =>
        \A i \in DOMAIN accrual_df : \A p \in Parties :
            (/\ NonBlank(args.input[i][p.code])
             /\ NothingFound(args.input[i][p.name], location_codes))
                => accrual_df[i][p.code] = args.input[i][p.code]

\* the same of section 3 of PipelineRunner.run
C28_PipelineKeepsCode ==
    [][/\ pc = "extract" =>
            \A i \in Rows : \A p \in Parties :
                (/\ NonBlank(accrual_df[i][p.code])
                 /\ NothingFound(row_get(accrual_df[i], p.name), location_codes))
                    => accrual_df'[i][p.code] = accrual_df[i][p.code]
      ]_vars

----------------------------------------------------------------------------
(* Properties of the type mapper's output and of the invalid-code test *)

\* C29: map_types returns one record per shipment record, in the order of the
\* input, whatever the location table holds, rows that carry the same Loc Code
\* once formatted included.
C29_MapTypesOneRecordPerShipment ==
    [][/\ pc \in {"types", "types_consignee"} =>
            /\ Len(accrual_df') = Len(accrual_df)
            /\ \A i \in DOMAIN accrual_df :
                  accrual_df'[i]["Invoice Number"] = accrual_df[i]["Invoice Number"]
      ]_vars

\* the form the type lookup compares codes in: upper case, zero-padded to 4
Canonical(v) == upper(zfill(v, CodeWidth))

CanonicalTableCodes(table) ==
    {Canonical(table[j]["Loc Code"]) : j \in {k \in DOMAIN table : ~isna(table[k]["Loc Code"])}}

\* C30: a party code that equals a Loc Code of the location table once both are
\* upper-cased and zero-padded to 4 characters is never cleared as invalid.
C30_CanonicalMatchNeverCleared ==
    [][/\ pc = "invalid" =>
            \A i \in Rows : \A p \in Parties :
                (/\ NonBlank(accrual_df[i][p.code])
                 /\ Canonical(accrual_df[i][p.code])
                        \in CanonicalTableCodes(cintas_location_table))
                    => /\ accrual_df'[i][p.code] = accrual_df[i][p.code]
                       /\ ~ForcedToAddress(i, p)'
      ]_vars

====
